---- MODULE Spec2Model ----
(***************************************************************************)
(* Data preparation of the pacs.008 SageMaker notebooks: the two inference *)
(* pipeline notebooks (Linear Learner, XGBoost) and the Autopilot          *)
(* notebook.  A notebook run ("Run All") executes its cells top to bottom   *)
(* and stops at the first cell that raises.  The cells after the data      *)
(* preparation (platform jobs, deployment, magic store, requests, endpoint *)
(* deletion, the Autopilot monitoring loop) act on a SageMaker account and *)
(* are run by SpecPlatform; prediction_proba and the BIC cells of the      *)
(* dataset notebook are run on their own by SpecProba and SpecBic.         *)
(*                                                                         *)
(* A pandas DataFrame is a record                                          *)
(*   [columns, dtypes, index, data]                                        *)
(* columns: the column labels in order, dtypes: the dtype of each column,  *)
(* index: the row labels in order, data: one tuple of cell values per row. *)
(* A cell value is tagged: <<"str", s>>, <<"int", i>>, <<"float", i>> (an  *)
(* integral float i.0) or <<"nan">> (a missing value).                     *)
(***************************************************************************)
EXTENDS Integers, Sequences, FiniteSets, TLC

VARIABLES
    notebook,                   \* which notebook is run
    pc,                         \* the next cell (or statement) of the run
    error,                      \* the exception that stopped the run, or "None"
    executed,                   \* the stages completed so far, in order
    labeled_csv,                \* the labeled_data.csv downloaded from S3
    np_random_state,            \* numpy's global RandomState (hidden kernel state)
    labeled_raw_df,             \* pd.read_csv(...) (df in the Autopilot notebook)
    selected_df,
    label_encoder,              \* LabelEncoder.classes_
    X_train_df, X_test_df,      \* (X_train, X_test in the Autopilot notebook)
    y_train_df, y_test_df,
    files,                      \* local files written by to_csv: path -> lines
    s3,                         \* objects uploaded by the run: location -> lines
    train_input_data_location,
    test_input_data_location,
    schema,                     \* the four lists of kinds of the typing cell
    fit_inputs,                 \* the 'train' channel given to sklearn_preprocessor.fit
    transform_data,             \* the data given to transformer.transform
    id_selected_df,             \* id(selected_df): which object the name is bound to
    gmtime,                     \* strftime("%Y-%m-%d-%H-%M-%S", gmtime()) of the kernel's clock
    transform_job,              \* status of transformer.latest_transform_job
    preprocessed_train,
    training_job,               \* status of the estimator's training job
    data_channels,              \* the channels given to the estimator's fit
    timestamp_prefix,
    model_name,
    endpoint_name,
    models,                     \* the models of the SageMaker account, by name
    endpoints,                  \* the endpoints in service in the account, by name
    store,                      \* the notebook magic store (%store): name -> value
    auto_ml_job_name,
    AutoMLJobStatus,            \* the status of the Autopilot job, held by the service
    BestCandidate,              \* the best candidate of the job so far, held by the service
    job_run_status,
    best_candidate,
    training_job_name,
    prediction,                 \* the body of an endpoint response
    y_pred,
    user_ns,                    \* the names bound in the kernel of the BIC notebook
    stdout                      \* the lines printed by the cell being run

vars == <<notebook, pc, error, executed, labeled_csv, np_random_state,
          labeled_raw_df, selected_df, label_encoder, X_train_df, X_test_df,
          y_train_df, y_test_df, files, s3, train_input_data_location,
          test_input_data_location, schema, fit_inputs, transform_data,
          id_selected_df, gmtime, transform_job, preprocessed_train, training_job,
          data_channels, timestamp_prefix, model_name, endpoint_name, models,
          endpoints, store, auto_ml_job_name, AutoMLJobStatus, BestCandidate,
          job_run_status, best_candidate, training_job_name, prediction, y_pred,
          user_ns, stdout>>

\* the state of the cells after the data preparation, and of the account
later_cells == <<gmtime, training_job, data_channels, timestamp_prefix, model_name,
                 endpoint_name, models, endpoints, store, auto_ml_job_name,
                 AutoMLJobStatus, BestCandidate, job_run_status, best_candidate,
                 training_job_name, prediction, y_pred, user_ns, stdout>>

\* the state of the data preparation cells
prepared_data == <<labeled_csv, np_random_state, labeled_raw_df, selected_df,
                   id_selected_df, label_encoder, X_train_df, X_test_df, y_train_df,
                   y_test_df, files, s3, train_input_data_location,
                   test_input_data_location, schema>>

----------------------------------------------------------------------------
(* Bounds of the model *)

\* longest labeled file explored exhaustively (rows)
MaxRows == 3
\* number of distinct values of numpy's global generator state
NumGlobalStates == 2
\* number of arrangements of the 100-record scenario
NumScenarios == 2
\* widest frame handed to the rename cell on its own (columns)
MaxRenameCols == 3
\* longest frame handed to the rename cell on its own (rows)
MaxRenameRows == 1
\* longest frame handed to the typing loops on their own (rows)
MaxTypeRows == 2

----------------------------------------------------------------------------
(* Generic helpers *)

Range(s) == {s[i] : i \in DOMAIN s}

IsIn(x, s) == \E i \in DOMAIN s : s[i] = x

\* position of the first occurrence of x in s (x must occur)
IndexOf(x, s) == CHOOSE i \in DOMAIN s : s[i] = x /\ \A j \in 1..(i - 1) : s[j] # x

NoDuplicates(s) == \A i, j \in DOMAIN s : s[i] = s[j] => i = j

StrV(s) == <<"str", s>>
IntV(i) == <<"int", i>>
FloatV(i) == <<"float", i>>
NaN == <<"nan">>

IsStr(v) == v[1] = "str"
IsNaN(v) == v[1] = "nan"

EmptyFrame == [columns |-> <<>>, dtypes |-> <<>>, index |-> <<>>, data |-> <<>>]

NRows(df) == Len(df.index)

\* df[col] as the tuple of its values, by row position
ColumnValues(df, col) ==
    LET c == IndexOf(col, df.columns)
    IN  [r \in 1..NRows(df) |-> df.data[r][c]]

\* the rows of df at the given positions, in that order (DataFrame.iloc)
iloc(df, positions) ==
    [columns |-> df.columns,
     dtypes  |-> df.dtypes,
     index   |-> [k \in DOMAIN positions |-> df.index[positions[k]]],
     data    |-> [k \in DOMAIN positions |-> df.data[positions[k]]]]

----------------------------------------------------------------------------
(* The notebooks' literals *)

\* fts: the training features selected from the labeled frame
fts ==
    << "y_target",
       "Document_FIToFICstmrCdtTrf_CdtTrfTxInf_Dbtr_PstlAdr_Ctry",
       "Document_FIToFICstmrCdtTrf_CdtTrfTxInf_Cdtr_PstlAdr_Ctry",
       "Document_FIToFICstmrCdtTrf_CdtTrfTxInf_RgltryRptg_DbtCdtRptgInd",
       "Document_FIToFICstmrCdtTrf_CdtTrfTxInf_RgltryRptg_Authrty_Ctry",
       "Document_FIToFICstmrCdtTrf_CdtTrfTxInf_RgltryRptg_Dtls_Cd",
       "Document_FIToFICstmrCdtTrf_CdtTrfTxInf_InstrForNxtAgt_InstrInf" >>

\* the columns= argument of selected_df.rename
rename_columns ==
    ( "Document_FIToFICstmrCdtTrf_CdtTrfTxInf_Dbtr_PstlAdr_Ctry" :> "Dbtr_PstlAdr_Ctry"
   @@ "Document_FIToFICstmrCdtTrf_CdtTrfTxInf_Cdtr_PstlAdr_Ctry" :> "Cdtr_PstlAdr_Ctry"
   @@ "Document_FIToFICstmrCdtTrf_CdtTrfTxInf_RgltryRptg_DbtCdtRptgInd" :> "RgltryRptg_DbtCdtRptgInd"
   @@ "Document_FIToFICstmrCdtTrf_CdtTrfTxInf_RgltryRptg_Authrty_Ctry" :> "RgltryRptg_Authrty_Ctry"
   @@ "Document_FIToFICstmrCdtTrf_CdtTrfTxInf_RgltryRptg_Dtls_Cd" :> "RgltryRptg_Dtls_Cd"
   @@ "Document_FIToFICstmrCdtTrf_CdtTrfTxInf_InstrForNxtAgt_InstrInf" :> "InstrForNxtAgt" )

categorical_fts ==
    << "Dbtr_PstlAdr_Ctry", "Cdtr_PstlAdr_Ctry", "RgltryRptg_DbtCdtRptgInd",
       "RgltryRptg_Authrty_Ctry", "RgltryRptg_Dtls_Cd" >>

integer_fts == <<>>

numeric_fts == <<>>

\* a text list naming a field that categorical_fts names too
text_fts_listed_twice == << "RgltryRptg_Dtls_Cd" >>

text_fts == <<>>

\* the four lists as the typing cell assigns them
NotebookKinds ==
    [categorical_fts |-> categorical_fts, integer_fts |-> integer_fts,
     numeric_fts |-> numeric_fts, text_fts |-> text_fts]

\* test_size=0.20 (0.2 in the Autopilot notebook), kept as the fraction 1/5.
\* The double 0.2 is 1/5 + 2^-54/5; for every n below 2^53 the double product
\* 0.2 * n rounds to n/5 when 5 divides n and stays strictly between the
\* neighbouring integers otherwise, so ceil(0.2 * n) is ceil(n / 5).
test_size == [num |-> 1, den |-> 5]

\* random_state of the two pipeline notebooks
random_state_pipeline == 299

\* random_state of the Autopilot notebook
random_state_automl == 20

PipelineNotebooks == {"linear_learner", "xgboost"}

Notebooks == PipelineNotebooks \cup {"automl"}

train_data_w_headers_output_path == "iso20022-data/train_data_w_headers.csv"
train_data_output_path == "iso20022-data/train_data.csv"
test_data_output_path == "iso20022-data/test_data.csv"

training_headers_location == "s3://iso20022-prototype-t3/iso20022/pacs008/training-headers/train_data_w_headers.csv"
training_data_location == "s3://iso20022-prototype-t3/iso20022/pacs008/training-data/train_data.csv"
test_data_location == "s3://iso20022-prototype-t3/iso20022/pacs008/test-data/test_data.csv"

automl_train_data_output_path == "WORKDIR/train_data.csv"
automl_test_data_output_path == "WORKDIR/test_data.csv"
automl_training_data_location == "s3://iso20022-prototype-t3/iso20022/pacs008/automl/training-data/train_data.csv"
automl_test_data_location == "s3://iso20022-prototype-t3/iso20022/pacs008/automl/test-data/test_data.csv"

----------------------------------------------------------------------------
(* The labeled file: inputs of a run *)

ExtraColumn == "Document_FIToFICstmrCdtTrf_GrpHdr_MsgId"

\* one line of labeled data as a mapping from column name to raw text
LabeledRow(y, dbtr, cdtr, ind, auth, cd, instr, msgid) ==
    ( fts[1] :> y @@ fts[2] :> dbtr @@ fts[3] :> cdtr @@ fts[4] :> ind
   @@ fts[5] :> auth @@ fts[6] :> cd @@ fts[7] :> instr @@ ExtraColumn :> msgid )

\* the records the explored files are made of (the notebooks' sample payloads)
RowPool ==
    << LabeledRow("Success", "MX", "GB", "", "", "", "", "M1"),
       LabeledRow("Failure", "TH", "US", "", "", "",
                  "/SVC/It is to be delivered in four days. Greater than four days penalty add 2bp per day", "M2"),
       LabeledRow("Success", "IN", "CA", "DEBT", "IN", "00.P0006", "", "M3"),
       LabeledRow("Failed", "IE", "IN", "CRED", "IN", "0", "/REG/99.C34698", "M4") >>

\* header layouts of the labeled file: more columns than fts in another order,
\* exactly fts, one feature column absent, the target column absent
CsvHeaders ==
    << << fts[2], fts[3], ExtraColumn, fts[4], fts[5], fts[6], fts[7], fts[1] >>,
       fts,
       << fts[1], fts[2], fts[3], fts[4], fts[5], fts[7] >>,
       << fts[2], fts[3], fts[4], fts[5], fts[6], fts[7], ExtraColumn >> >>

\* the text record p has under a column name (a column the pool does not
\* name holds a country code)
Field(p, name) == IF name \in DOMAIN RowPool[p] THEN RowPool[p][name] ELSE "GB"

CsvFile(header, picks) ==
    [header |-> header,
     rows   |-> [r \in DOMAIN picks |-> [c \in DOMAIN header |-> Field(picks[r], header[c])]]]

SeqsUpTo(S, n) == UNION {[1..k -> S] : k \in 0..n}

\* the 100-record scenario: 60 "Success" and 40 "Failure" records, arranged
\* in blocks of five starting at offset k
ScenarioPicks(k) == [i \in 1..(60 + 40) |-> IF (i + k) % 5 < 3 THEN 1 ELSE 2]

LabeledFiles ==
    {CsvFile(CsvHeaders[h], picks) :
        h \in DOMAIN CsvHeaders, picks \in SeqsUpTo(DOMAIN RowPool, MaxRows)}
    \cup {CsvFile(fts, ScenarioPicks(k)) : k \in 0..(NumScenarios - 1)}

----------------------------------------------------------------------------
(* pandas *)

\* the texts of the data that int() parses, with their values
IntLiterals == ("0" :> 0 @@ "1" :> 1 @@ "2" :> 2)

\* the texts of the data that float() parses, with their values
FloatLiterals ==
    ( "0" :> FloatV(0) @@ "1" :> FloatV(1) @@ "2" :> FloatV(2)
   @@ "0.0" :> FloatV(0) @@ "1.0" :> FloatV(1) @@ "2.0" :> FloatV(2)
   @@ "nan" :> NaN )

\* the texts pd.read_csv takes for a missing value (its default na_values,
\* among the texts of the data)
NaTexts == {"", "nan"}

\* pd.read_csv: the header row names the columns, the index is 0..n-1, an
\* empty field (or a text of na_values) is NaN; a column of integer texts is
\* int64, a column of number texts, or of integer texts with missing values,
\* is float64, any other column holds the texts (object)
read_csv(file) ==
    LET n == Len(file.rows)
        Texts(c) == {file.rows[r][c] : r \in 1..n} \ NaTexts
        HasNa(c) == \E r \in 1..n : file.rows[r][c] \in NaTexts
        Dtype(c) == IF n = 0 THEN "object"
                    ELSE IF Texts(c) \subseteq DOMAIN IntLiterals /\ ~HasNa(c) THEN "int64"
                    ELSE IF Texts(c) \subseteq DOMAIN FloatLiterals THEN "float64"
                    ELSE "object"
        Cell(r, c) == LET t == file.rows[r][c]
                      IN  IF t \in NaTexts THEN NaN
                          ELSE IF Dtype(c) = "int64" THEN IntV(IntLiterals[t])
                          ELSE IF Dtype(c) = "float64" THEN FloatLiterals[t]
                          ELSE StrV(t)
    IN  [columns |-> file.header,
         dtypes  |-> [c \in DOMAIN file.header |-> Dtype(c)],
         index   |-> [r \in 1..n |-> r - 1],
         data    |-> [r \in 1..n |-> [c \in DOMAIN file.header |-> Cell(r, c)]]]

\* df[names] raises KeyError when a name is no column of df
getitem_raises(df, names) == \E i \in DOMAIN names : ~IsIn(names[i], df.columns)

\* a selection that keeps the named columns in the order they have in df
getitem_frame_order(df, names) ==
    LET pos == SelectSeq([i \in DOMAIN df.columns |-> i],
                         LAMBDA c : IsIn(df.columns[c], names))
    IN  [columns |-> [i \in DOMAIN pos |-> df.columns[pos[i]]],
         dtypes  |-> [i \in DOMAIN pos |-> df.dtypes[pos[i]]],
         index   |-> df.index,
         data    |-> [r \in 1..NRows(df) |-> [i \in DOMAIN pos |-> df.data[r][pos[i]]]]]

\* df[names]: a new frame of the named columns, in the order of names
getitem(df, names) ==
    LET pos == [i \in DOMAIN names |-> IndexOf(names[i], df.columns)]
    IN  [columns |-> names,
         dtypes  |-> [i \in DOMAIN names |-> df.dtypes[pos[i]]],
         index   |-> df.index,
         data    |-> [r \in 1..NRows(df) |-> [i \in DOMAIN names |-> df.data[r][pos[i]]]]]

\* df.rename(mapper) without columns=: the mapper is applied to the row
\* labels, none of which is a key, and the columns keep their names
rename_index(df, mapper) == df

\* a rename that drops each renamed column and inserts it, under its new
\* name, ahead of the columns that keep their names
rename_moves(df, mapper) ==
    LET all  == [i \in DOMAIN df.columns |-> i]
        kept == SelectSeq(all, LAMBDA c : df.columns[c] \notin DOMAIN mapper)
        pos  == SelectSeq(all, LAMBDA c : df.columns[c] \in DOMAIN mapper) \o kept
    IN  [columns |-> [i \in DOMAIN pos |->
                         IF df.columns[pos[i]] \in DOMAIN mapper
                         THEN mapper[df.columns[pos[i]]] ELSE df.columns[pos[i]]],
         dtypes  |-> [i \in DOMAIN pos |-> df.dtypes[pos[i]]],
         index   |-> df.index,
         data    |-> [r \in 1..NRows(df) |-> [i \in DOMAIN pos |-> df.data[r][pos[i]]]]]

\* df.rename(columns=mapper) with the default errors='ignore': a label that is
\* a key of mapper is replaced, every other label is kept, keys that are no
\* label are ignored and nothing is checked for duplicates
rename(df, mapper) ==
    [df EXCEPT !.columns =
        [i \in DOMAIN df.columns |->
            IF df.columns[i] \in DOMAIN mapper THEN mapper[df.columns[i]]
            ELSE df.columns[i]]]

\* repr(v) of a cell value: a text comes out between quotes
astype_repr(v) ==
    CASE v[1] = "str"   -> StrV("'" \o v[2] \o "'")
      [] v[1] = "nan"   -> StrV("nan")
      [] v[1] = "int"   -> StrV(ToString(v[2]))
      [] v[1] = "float" -> StrV(ToString(v[2]) \o ".0")

\* str(v) of a cell value
astype_str(v) ==
    CASE v[1] = "str"   -> v
      [] v[1] = "nan"   -> StrV("nan")
      [] v[1] = "int"   -> StrV(ToString(v[2]))
      [] v[1] = "float" -> StrV(ToString(v[2]) \o ".0")

\* df[col] = values with dtype: replaces the column col of df in place
setitem(df, col, values, dtype) ==
    LET c == IndexOf(col, df.columns)
    IN  [df EXCEPT !.dtypes[c] = dtype,
                   !.data = [r \in 1..NRows(df) |-> [df.data[r] EXCEPT ![c] = values[r]]]]

\* Series.astype(dtype) of a text raises ValueError when the text is no
\* literal of an 'int64' or 'float64' dtype
astype_raises(v, dtype) ==
    \/ dtype = "int64" /\ v[2] \notin DOMAIN IntLiterals
    \/ dtype = "float64" /\ v[2] \notin DOMAIN FloatLiterals

\* Series.astype(dtype) of a text: 'category' and 'string' keep the text
astype(v, dtype) ==
    CASE dtype = "int64"   -> IntV(IntLiterals[v[2]])
      [] dtype = "float64" -> FloatLiterals[v[2]]
      [] OTHER             -> v

\* for col in cols: df[col] = df[col].astype(str).astype(dtype); the result
\* is [raised, df], df holding the columns assigned before the one that raised
RECURSIVE astype_loop(_, _, _, _)
astype_loop(df, cols, k, dtype) ==
    IF k > Len(cols) THEN [raised |-> "None", df |-> df]
    ELSE IF ~IsIn(cols[k], df.columns) THEN [raised |-> "KeyError", df |-> df]
    ELSE LET vals == ColumnValues(df, cols[k])
             strs == [r \in DOMAIN vals |-> astype_str(vals[r])]
         IN  IF \E r \in DOMAIN strs : astype_raises(strs[r], dtype)
             THEN [raised |-> "ValueError", df |-> df]
             ELSE astype_loop(setitem(df, cols[k],
                                      [r \in DOMAIN strs |-> astype(strs[r], dtype)], dtype),
                              cols, k + 1, dtype)

\* the four typing loops of the cell, in order, over the lists of kinds;
\* the first loop that raises ends the cell
assign_types(df, kinds) ==
    LET a == astype_loop(df, kinds.categorical_fts, 1, "category")
        b == IF a.raised = "None" THEN astype_loop(a.df, kinds.integer_fts, 1, "int64") ELSE a
        c == IF b.raised = "None" THEN astype_loop(b.df, kinds.numeric_fts, 1, "float64") ELSE b
        d == IF c.raised = "None" THEN astype_loop(c.df, kinds.text_fts, 1, "string") ELSE c
    IN  d

\* the text of a cell value in a CSV file (to_csv writes NaN as an empty field)
csv_text(v) ==
    CASE v[1] = "str"   -> v[2]
      [] v[1] = "nan"   -> ""
      [] v[1] = "int"   -> ToString(v[2])
      [] v[1] = "float" -> ToString(v[2]) \o ".0"

\* df.to_csv(path, header=header) with the default index=True: every line
\* starts with the row label, the header row with an empty name
to_csv_with_index(df, header) ==
    (IF header THEN << <<"">> \o df.columns >> ELSE <<>>)
    \o [r \in 1..NRows(df) |->
           <<ToString(df.index[r])>> \o [c \in DOMAIN df.columns |-> csv_text(df.data[r][c])]]

\* df.to_csv(path, header=header, index=False): the lines written, each the
\* tuple of its fields
to_csv(df, header) ==
    (IF header THEN <<df.columns>> ELSE <<>>)
    \o [r \in 1..NRows(df) |-> [c \in DOMAIN df.columns |-> csv_text(df.data[r][c])]]

----------------------------------------------------------------------------
(* sklearn.preprocessing.LabelEncoder *)

\* the code points of the target texts
CodePoints ==
    ( "Success" :> <<83, 117, 99, 99, 101, 115, 115>>
   @@ "Failure" :> <<70, 97, 105, 108, 117, 114, 101>>
   @@ "Failed"  :> <<70, 97, 105, 108, 101, 100>> )

\* a < b for Python strings: code point by code point, a proper prefix first
RECURSIVE seq_less(_, _)
seq_less(a, b) ==
    IF b = <<>> THEN FALSE
    ELSE IF a = <<>> THEN TRUE
    ELSE IF a[1] # b[1] THEN a[1] < b[1]
    ELSE seq_less(Tail(a), Tail(b))

str_less(a, b) == seq_less(CodePoints[a], CodePoints[b])

\* np.unique: the distinct values in ascending order
RECURSIVE sorted_seq(_)
sorted_seq(S) ==
    IF S = {} THEN <<>>
    ELSE LET m == CHOOSE x \in S : \A y \in S \ {x} : str_less(x, y)
         IN  <<m>> \o sorted_seq(S \ {m})

np_unique(y) == sorted_seq({y[r][2] : r \in DOMAIN y})

\* the distinct values in order of first appearance (as pd.unique gives them)
RECURSIVE first_appearance(_, _)
first_appearance(y, k) ==
    IF k > Len(y) THEN <<>>
    ELSE IF \E j \in 1..(k - 1) : y[j] = y[k] THEN first_appearance(y, k + 1)
    ELSE <<y[k][2]>> \o first_appearance(y, k + 1)

\* a fit that numbers the classes in order of first appearance
fit_first_appearance(y) == first_appearance(y, 1)

\* LabelEncoder.fit: classes_
fit(y) == np_unique(y)

\* a transform that numbers the values in order of first appearance (as
\* pd.factorize does) instead of looking them up in classes_
transform_factorize(classes, y) ==
    [r \in DOMAIN y |-> IntV(IndexOf(y[r][2], first_appearance(y, 1)) - 1)]

\* LabelEncoder.transform: the position of each value in classes_, from 0
transform(classes, y) == [r \in DOMAIN y |-> IntV(IndexOf(y[r][2], classes) - 1)]

----------------------------------------------------------------------------
(* numpy.random and sklearn.model_selection.train_test_split *)

\* RandomState(seed): a generator whose state is a function of seed alone.
\* The generator is a 16-bit linear congruential one standing for MT19937:
\* the claims rest on the stream being a function of the state, not on its bits.
RandomState(seed) == seed % 65536

\* the state after one draw
rk_random(state) == (25173 * state + 13849) % 65536

\* rk_interval(max): a draw in 0..max from the state's high bits
rk_interval(max, state) == (state \div 16) % (max + 1)

\* a check_random_state that takes the global generator whatever the seed
check_random_state_global(seed, global) == global

\* check_random_state(seed): an int seeds a new generator; the global
\* generator is used for None only
check_random_state(seed, global) == RandomState(seed)

\* one pass of the loop of RandomState.shuffle at position i: draw j among
\* the positions up to i and swap x[i] with x[j]
shuffle_step(g, i) ==
    LET s == rk_random(g.state)
        j == rk_interval(i - 1, s) + 1
    IN  [x |-> [g.x EXCEPT ![i] = g.x[j], ![j] = g.x[i]], state |-> s]

\* the passes for i = hi down to lo, in that order (the range is halved, and
\* the upper half evaluated first, to keep the evaluation shallow)
RECURSIVE shuffle_passes(_, _, _)
shuffle_passes(g, hi, lo) ==
    IF hi < lo THEN g
    ELSE IF hi = lo THEN shuffle_step(g, hi)
    ELSE LET mid == (hi + lo) \div 2
             upper == shuffle_passes(g, hi, mid + 1)
         IN  IF upper.state >= 0 THEN shuffle_passes(upper, mid, lo) ELSE upper

\* RandomState.shuffle: for i from the last position down to the second
shuffle(x, state) == shuffle_passes([x |-> x, state |-> state], Len(x), 2).x

\* RandomState.permutation(n): a shuffled arange(n), as positions 1..n
permutation(state, n) == shuffle([k \in 1..n |-> k], state)

\* ceil(n * f) for the fraction f
ceil_mul(n, f) == ((n * f.num) + f.den - 1) \div f.den

\* an n_test that truncates the product
n_test_of_floor(n, size) == (n * size.num) \div size.den

\* an n_test that truncates the product and adds one (none of no rows)
n_test_of_floor_plus_one(n, size) ==
    IF n = 0 THEN 0 ELSE ((n * size.num) \div size.den) + 1

\* _validate_shuffle_split with train_size=None: n_test = ceil(test_size * n),
\* n_train = n - n_test
n_test_of(n, size) == ceil_mul(n, size)

n_train_of(n, size) == n - n_test_of(n, size)

\* a train_test_split without the check of an empty train set
split_raises_never(n, size) == FALSE

\* train_test_split raises ValueError when the train set would be empty
split_raises(n, size) == n_train_of(n, size) = 0

\* a split whose train rows start one position early, at the last test row
train_test_split_overlap(X, y, size, seed, global) ==
    LET n     == NRows(X)
        perm  == permutation(check_random_state(seed, global), n)
        nt    == n_test_of(n, size)
        test  == SubSeq(perm, 1, nt)
        train == SubSeq(perm, nt, n)
    IN  [X_train |-> iloc(X, train), X_test |-> iloc(X, test),
         y_train |-> iloc(y, train), y_test |-> iloc(y, test)]

\* ShuffleSplit: the first n_test positions of the permutation are the test
\* rows, the following n_train positions the train rows
train_test_split(X, y, size, seed, global) ==
    LET n     == NRows(X)
        perm  == permutation(check_random_state(seed, global), n)
        nt    == n_test_of(n, size)
        test  == SubSeq(perm, 1, nt)
        train == SubSeq(perm, nt + 1, n)
    IN  [X_train |-> iloc(X, train), X_test |-> iloc(X, test),
         y_train |-> iloc(y, train), y_test |-> iloc(y, test)]

----------------------------------------------------------------------------
(* The notebook run *)

NoFiles == <<>>

Write(m, path, lines) == (path :> lines) @@ m

random_state == IF notebook = "automl" THEN random_state_automl ELSE random_state_pipeline

\* nothing is bound yet by the cells after the data preparation
LaterCellsIdle ==
    /\ transform_job = "None"
    /\ preprocessed_train = "None"
    /\ training_job = "None"
    /\ data_channels = NoFiles
    /\ timestamp_prefix = "None"
    /\ model_name = "None"
    /\ endpoint_name = "None"
    /\ auto_ml_job_name = "None"
    /\ job_run_status = "None"
    /\ best_candidate = "None"
    /\ training_job_name = "None"
    /\ prediction = ""
    /\ y_pred = "None"
    /\ user_ns = NoFiles
    /\ stdout = <<>>

\* an account without models, endpoints or Autopilot job, and an empty store
AccountIdle ==
    /\ gmtime = "2021-11-25-00-58-52"
    /\ models = {}
    /\ endpoints = {}
    /\ store = NoFiles
    /\ AutoMLJobStatus = "None"
    /\ BestCandidate = "None"

\* the state of the kernel before the first cell is run
Init ==
    /\ notebook \in Notebooks
    /\ labeled_csv \in LabeledFiles
    /\ np_random_state \in 0..(NumGlobalStates - 1)
    /\ pc = "read_csv"
    /\ error = "None"
    /\ executed = <<>>
    /\ labeled_raw_df = EmptyFrame
    /\ selected_df = EmptyFrame
    /\ label_encoder = <<>>
    /\ X_train_df = EmptyFrame
    /\ X_test_df = EmptyFrame
    /\ y_train_df = EmptyFrame
    /\ y_test_df = EmptyFrame
    /\ files = NoFiles
    /\ s3 = NoFiles
    /\ train_input_data_location = "None"
    /\ test_input_data_location = "None"
    /\ schema = NotebookKinds
    /\ fit_inputs = "None"
    /\ transform_data = "None"
    /\ id_selected_df = 0
    /\ LaterCellsIdle
    /\ AccountIdle

\* a cell raised: the run stops there
Raise(exception) ==
    /\ pc' = "aborted"
    /\ error' = exception

Completed(stage, next) ==
    /\ pc' = next
    /\ executed' = Append(executed, stage)
    /\ error' = error

\* a pipeline notebook whose select cell is commented out, as it is in the
\* Autopilot notebook: the run goes from read_csv on to the rename cell
ReadCsv_select_commented_out ==
    /\ pc = "read_csv"
    /\ labeled_raw_df' = read_csv(labeled_csv)
    /\ Completed("read_csv", IF notebook = "automl" THEN "automl_split" ELSE "rename")
    /\ UNCHANGED <<notebook, labeled_csv, np_random_state, selected_df, label_encoder,
                   X_train_df, X_test_df, y_train_df, y_test_df, files, s3,
                   train_input_data_location, test_input_data_location,
                   schema, fit_inputs, transform_data>>
    /\ UNCHANGED <<transform_job, preprocessed_train, later_cells>>
    /\ UNCHANGED id_selected_df

\* labeled_raw_df = pd.read_csv("iso20022-data/labeled_data.csv")
ReadCsv ==
    /\ pc = "read_csv"
    /\ UNCHANGED <<schema, fit_inputs, transform_data, transform_job, preprocessed_train,
                   later_cells>>
    /\ UNCHANGED id_selected_df
    /\ labeled_raw_df' = read_csv(labeled_csv)
    /\ Completed("read_csv", IF notebook = "automl" THEN "automl_split" ELSE "select")
    /\ UNCHANGED <<notebook, labeled_csv, np_random_state, selected_df, label_encoder,
                   X_train_df, X_test_df, y_train_df, y_test_df, files, s3,
                   train_input_data_location, test_input_data_location>>

\* df.reindex(columns=names): an absent column is filled with NaN
reindex(df, names) ==
    LET Has(i) == IsIn(names[i], df.columns)
    IN  [columns |-> names,
         dtypes  |-> [i \in DOMAIN names |->
                         IF Has(i) THEN df.dtypes[IndexOf(names[i], df.columns)] ELSE "float64"],
         index   |-> df.index,
         data    |-> [r \in 1..NRows(df) |-> [i \in DOMAIN names |->
                         IF Has(i) THEN df.data[r][IndexOf(names[i], df.columns)] ELSE NaN]]]

\* a select cell written selected_df = labeled_raw_df.reindex(columns=fts),
\* which never raises
Select_reindex ==
    /\ pc = "select"
    /\ UNCHANGED <<schema, fit_inputs, transform_data, transform_job, preprocessed_train,
                   later_cells>>
    /\ selected_df' = reindex(labeled_raw_df, fts)
    /\ id_selected_df' = id_selected_df + 1
    /\ Completed("select", "rename")
    /\ UNCHANGED <<notebook, labeled_csv, np_random_state, labeled_raw_df, label_encoder,
                   X_train_df, X_test_df, y_train_df, y_test_df, files, s3,
                   train_input_data_location, test_input_data_location>>

\* a select cell that drops the other columns from the frame it was given,
\* labeled_raw_df.drop(columns=..., inplace=True) with the columns put in the
\* order of fts, and binds selected_df to that same frame
Select_inplace ==
    /\ pc = "select"
    /\ UNCHANGED <<schema, fit_inputs, transform_data, transform_job, preprocessed_train,
                   later_cells>>
    /\ IF getitem_raises(labeled_raw_df, fts)
       THEN /\ Raise("KeyError")
            /\ UNCHANGED <<selected_df, labeled_raw_df, id_selected_df, executed>>
       ELSE /\ selected_df' = getitem(labeled_raw_df, fts)
            /\ labeled_raw_df' = getitem(labeled_raw_df, fts)
            /\ id_selected_df' = id_selected_df + 1
            /\ Completed("select", "rename")
    /\ UNCHANGED <<notebook, labeled_csv, np_random_state, label_encoder,
                   X_train_df, X_test_df, y_train_df, y_test_df, files, s3,
                   train_input_data_location, test_input_data_location>>

\* selected_df = labeled_raw_df[fts]
Select ==
    /\ pc = "select"
    /\ UNCHANGED <<schema, fit_inputs, transform_data, transform_job, preprocessed_train,
                   later_cells>>
    /\ IF getitem_raises(labeled_raw_df, fts)
       THEN /\ Raise("KeyError")
            /\ UNCHANGED <<selected_df, id_selected_df, executed>>
       ELSE /\ selected_df' = getitem(labeled_raw_df, fts)
            /\ id_selected_df' = id_selected_df + 1
            /\ Completed("select", "rename")
    /\ UNCHANGED <<notebook, labeled_csv, np_random_state, labeled_raw_df, label_encoder,
                   X_train_df, X_test_df, y_train_df, y_test_df, files, s3,
                   train_input_data_location, test_input_data_location>>

\* selected_df = selected_df.rename(columns={...})
Rename ==
    /\ pc = "rename"
    /\ UNCHANGED <<schema, fit_inputs, transform_data, transform_job, preprocessed_train,
                   later_cells>>
    /\ selected_df' = rename(selected_df, rename_columns)
    /\ id_selected_df' = id_selected_df + 1
    /\ Completed("rename", "assign_types")
    /\ UNCHANGED <<notebook, labeled_csv, np_random_state, labeled_raw_df, label_encoder,
                   X_train_df, X_test_df, y_train_df, y_test_df, files, s3,
                   train_input_data_location, test_input_data_location>>

\* the typing loops of the typing cell
AssignTypes ==
    /\ pc = "assign_types"
    /\ UNCHANGED <<schema, fit_inputs, transform_data, transform_job, preprocessed_train,
                   later_cells>>
    /\ UNCHANGED id_selected_df
    /\ LET typed == assign_types(selected_df, schema)
       IN  /\ selected_df' = typed.df
           /\ IF typed.raised # "None"
              THEN Raise(typed.raised) /\ UNCHANGED executed
              ELSE Completed("assign_types", "encode_target")
    /\ UNCHANGED <<notebook, labeled_csv, np_random_state, labeled_raw_df, label_encoder,
                   X_train_df, X_test_df, y_train_df, y_test_df, files, s3,
                   train_input_data_location, test_input_data_location>>

\* an encoding that refuses a frame without rows: it raises ValueError
\* instead of fitting an encoder without classes
EncodeTarget_refuses_empty ==
    /\ pc = "encode_target"
    /\ UNCHANGED <<schema, fit_inputs, transform_data, transform_job, preprocessed_train,
                   later_cells>>
    /\ UNCHANGED id_selected_df
    /\ IF NRows(selected_df) = 0
       THEN /\ Raise("ValueError")
            /\ UNCHANGED <<label_encoder, selected_df, executed>>
       ELSE /\ LET y == ColumnValues(selected_df, "y_target")
                   classes == fit(y)
               IN  /\ label_encoder' = classes
                   /\ selected_df' = setitem(selected_df, "y_target", transform(classes, y), "int64")
            /\ Completed("encode_target", "split")
    /\ UNCHANGED <<notebook, labeled_csv, np_random_state, labeled_raw_df,
                   X_train_df, X_test_df, y_train_df, y_test_df, files, s3,
                   train_input_data_location, test_input_data_location>>

\* label_encoder = LabelEncoder()
\* selected_df['y_target'] = label_encoder.fit_transform(selected_df['y_target'])
EncodeTarget ==
    /\ pc = "encode_target"
    /\ UNCHANGED <<schema, fit_inputs, transform_data, transform_job, preprocessed_train,
                   later_cells>>
    /\ UNCHANGED id_selected_df
    /\ LET y == ColumnValues(selected_df, "y_target")
           classes == fit(y)
       IN  /\ label_encoder' = classes
           /\ selected_df' = setitem(selected_df, "y_target", transform(classes, y), "int64")
    /\ Completed("encode_target", "split")
    /\ UNCHANGED <<notebook, labeled_csv, np_random_state, labeled_raw_df,
                   X_train_df, X_test_df, y_train_df, y_test_df, files, s3,
                   train_input_data_location, test_input_data_location>>

\* X_train_df, X_test_df, y_train_df, y_test_df = train_test_split(selected_df,
\*     selected_df['y_target'], test_size=0.20, random_state=299, shuffle=True)
Split ==
    /\ pc = "split"
    /\ UNCHANGED <<schema, fit_inputs, transform_data, transform_job, preprocessed_train,
                   later_cells>>
    /\ UNCHANGED id_selected_df
    /\ IF split_raises(NRows(selected_df), test_size)
       THEN /\ Raise("ValueError")
            /\ UNCHANGED <<X_train_df, X_test_df, y_train_df, y_test_df, executed>>
       ELSE /\ LET r == train_test_split(selected_df, getitem(selected_df, <<"y_target">>),
                                         test_size, random_state, np_random_state)
               IN  /\ X_train_df' = r.X_train
                   /\ X_test_df' = r.X_test
                   /\ y_train_df' = r.y_train
                   /\ y_test_df' = r.y_test
            /\ Completed("split", "to_csv")
    /\ UNCHANGED <<notebook, labeled_csv, np_random_state, labeled_raw_df, selected_df,
                   label_encoder, files, s3, train_input_data_location,
                   test_input_data_location>>

\* the three to_csv calls of the save cell
ToCsv ==
    /\ pc = "to_csv"
    /\ UNCHANGED <<schema, fit_inputs, transform_data, transform_job, preprocessed_train,
                   later_cells>>
    /\ UNCHANGED id_selected_df
    /\ files' = Write(Write(Write(files,
                    train_data_w_headers_output_path, to_csv(X_train_df, TRUE)),
                    train_data_output_path, to_csv(X_train_df, FALSE)),
                    test_data_output_path, to_csv(X_test_df, FALSE))
    /\ Completed("to_csv", "upload")
    /\ UNCHANGED <<notebook, labeled_csv, np_random_state, labeled_raw_df, selected_df,
                   label_encoder, X_train_df, X_test_df, y_train_df, y_test_df, s3,
                   train_input_data_location, test_input_data_location>>

\* an upload cell whose second upload_data call does not assign
\* train_input_data_location, which keeps the location of the first upload
Upload_first_location ==
    /\ pc = "upload"
    /\ UNCHANGED <<schema, fit_inputs, transform_data, transform_job, preprocessed_train,
                   later_cells>>
    /\ UNCHANGED id_selected_df
    /\ s3' = Write(Write(Write(s3,
                    training_headers_location, files[train_data_w_headers_output_path]),
                    training_data_location, files[train_data_output_path]),
                    test_data_location, files[test_data_output_path])
    /\ train_input_data_location' = training_headers_location
    /\ test_input_data_location' = test_data_location
    /\ Completed("upload", "fit")
    /\ UNCHANGED <<notebook, labeled_csv, np_random_state, labeled_raw_df, selected_df,
                   label_encoder, X_train_df, X_test_df, y_train_df, y_test_df, files>>

\* the three sm_session.upload_data calls of the upload cell;
\* train_input_data_location is assigned by the first and again by the second
Upload ==
    /\ pc = "upload"
    /\ UNCHANGED <<schema, fit_inputs, transform_data, transform_job, preprocessed_train,
                   later_cells>>
    /\ UNCHANGED id_selected_df
    /\ s3' = Write(Write(Write(s3,
                    training_headers_location, files[train_data_w_headers_output_path]),
                    training_data_location, files[train_data_output_path]),
                    test_data_location, files[test_data_output_path])
    /\ train_input_data_location' = training_data_location
    /\ test_input_data_location' = test_data_location
    /\ Completed("upload", "fit")
    /\ UNCHANGED <<notebook, labeled_csv, np_random_state, labeled_raw_df, selected_df,
                   label_encoder, X_train_df, X_test_df, y_train_df, y_test_df, files>>

\* the split cell of the Autopilot notebook: train_test_split(df, df['y_target'],
\* test_size=0.2, random_state=20, shuffle=True), two to_csv calls with the
\* header row and two s3.upload_file calls
AutoMLSplit ==
    /\ pc = "automl_split"
    /\ UNCHANGED <<schema, fit_inputs, transform_data, transform_job, preprocessed_train,
                   later_cells>>
    /\ UNCHANGED id_selected_df
    /\ IF getitem_raises(labeled_raw_df, <<"y_target">>)
       THEN /\ Raise("KeyError")
            /\ UNCHANGED <<X_train_df, X_test_df, y_train_df, y_test_df, files, s3, executed>>
       ELSE IF split_raises(NRows(labeled_raw_df), test_size)
       THEN /\ Raise("ValueError")
            /\ UNCHANGED <<X_train_df, X_test_df, y_train_df, y_test_df, files, s3, executed>>
       ELSE LET r == train_test_split(labeled_raw_df, getitem(labeled_raw_df, <<"y_target">>),
                                      test_size, random_state, np_random_state)
                written == Write(Write(files,
                               automl_train_data_output_path, to_csv(r.X_train, TRUE)),
                               automl_test_data_output_path, to_csv(r.X_test, TRUE))
            IN  /\ X_train_df' = r.X_train
                /\ X_test_df' = r.X_test
                /\ y_train_df' = r.y_train
                /\ y_test_df' = r.y_test
                /\ files' = written
                /\ s3' = Write(Write(s3,
                               automl_training_data_location, written[automl_train_data_output_path]),
                               automl_test_data_location, written[automl_test_data_output_path])
                /\ pc' = "prepared"
                /\ executed' = executed \o <<"split", "to_csv", "upload">>
                /\ error' = error
    /\ UNCHANGED <<notebook, labeled_csv, np_random_state, labeled_raw_df, selected_df,
                   label_encoder, train_input_data_location, test_input_data_location>>

\* sklearn_preprocessor.fit({"train": train_input_data_location})
Fit ==
    /\ pc = "fit"
    /\ fit_inputs' = train_input_data_location
    /\ Completed("fit", "transform")
    /\ UNCHANGED <<notebook, labeled_csv, np_random_state, labeled_raw_df, selected_df,
                   label_encoder, X_train_df, X_test_df, y_train_df, y_test_df, files, s3,
                   train_input_data_location, test_input_data_location, schema,
                   transform_data>>
    /\ UNCHANGED <<transform_job, preprocessed_train, later_cells>>
    /\ UNCHANGED id_selected_df

\* the output location of the transformer made by sklearn_preprocessor.transformer
transformer_output_path == "s3://sagemaker-default-bucket/sagemaker-scikit-learn-transform"

\* the transform cell: transformer.transform(train_input_data_location,
\* content_type="text/csv"), transformer.wait(), which raises unless the job
\* completes, and preprocessed_train = transformer.output_path
Transform ==
    /\ pc = "transform"
    /\ transform_data' = train_input_data_location
    /\ \E status \in {"Completed", "Failed"} :
           /\ transform_job' = status
           /\ IF status = "Completed"
              THEN /\ preprocessed_train' = transformer_output_path
                   /\ Completed("transform", "prepared")
              ELSE /\ Raise("UnexpectedStatusException")
                   /\ UNCHANGED <<preprocessed_train, executed>>
    /\ UNCHANGED <<notebook, prepared_data, fit_inputs, later_cells>>

Next ==
    \/ ReadCsv
    \/ Select
    \/ Rename
    \/ AssignTypes
    \/ EncodeTarget
    \/ Split
    \/ ToCsv
    \/ Upload
    \/ Fit
    \/ Transform
    \/ AutoMLSplit

Spec == Init /\ [][Next]_vars

----------------------------------------------------------------------------
(* The rename cell on its own: the kernel after a selection of any columns *)

\* a labeled file that already has a column of a short name
RenameHeader == << fts[1], fts[2], fts[3], "Dbtr_PstlAdr_Ctry" >>

\* the tuples of up to n distinct elements of S
DistinctSeqsUpTo(S, n) == {q \in SeqsUpTo(S, n) : q # <<>> /\ NoDuplicates(q)}

\* the kernel after labeled_raw_df[names] for a list of names of the file
InitRename ==
    /\ notebook \in PipelineNotebooks
    /\ \E picks \in SeqsUpTo(DOMAIN RowPool, MaxRenameRows) :
       \E names \in DistinctSeqsUpTo(Range(RenameHeader), MaxRenameCols) :
           /\ labeled_csv = CsvFile(RenameHeader, picks)
           /\ labeled_raw_df = read_csv(labeled_csv)
           /\ selected_df = getitem(labeled_raw_df, names)
    /\ np_random_state = 0
    /\ pc = "rename"
    /\ error = "None"
    /\ executed = <<"read_csv", "select">>
    /\ label_encoder = <<>>
    /\ X_train_df = EmptyFrame
    /\ X_test_df = EmptyFrame
    /\ y_train_df = EmptyFrame
    /\ y_test_df = EmptyFrame
    /\ files = NoFiles
    /\ s3 = NoFiles
    /\ train_input_data_location = "None"
    /\ test_input_data_location = "None"
    /\ schema = NotebookKinds
    /\ fit_inputs = "None"
    /\ transform_data = "None"
    /\ id_selected_df = 1
    /\ LaterCellsIdle
    /\ AccountIdle

NextRename == Rename

SpecRename == InitRename /\ [][NextRename]_vars

----------------------------------------------------------------------------
(* The typing loops on their own: the kernel after select and rename, the  *)
(* lists of kinds holding any one kind, or none, for two of the fields     *)

Kinds == {"categorical", "integer", "numeric", "text", "none"}

\* the fields whose kind varies; the other four stay in categorical_fts
SchemaFields == << "RgltryRptg_Dtls_Cd", "InstrForNxtAgt" >>

\* the four lists when SchemaFields[i] is declared of kind k[i]
KindLists(k) ==
    LET Listed(kind) == SelectSeq(SchemaFields,
                                  LAMBDA f : k[IndexOf(f, SchemaFields)] = kind)
    IN  [categorical_fts |-> SelectSeq(categorical_fts, LAMBDA f : ~IsIn(f, SchemaFields))
                                \o Listed("categorical"),
         integer_fts     |-> Listed("integer"),
         numeric_fts     |-> Listed("numeric"),
         text_fts        |-> Listed("text")]

\* the kernel before the typing loops, after read_csv, select and rename
InitTypes ==
    /\ notebook \in PipelineNotebooks
    /\ \E picks \in SeqsUpTo(DOMAIN RowPool, MaxTypeRows) :
           /\ labeled_csv = CsvFile(fts, picks)
           /\ labeled_raw_df = read_csv(labeled_csv)
           /\ selected_df = rename(getitem(labeled_raw_df, fts), rename_columns)
    /\ schema \in {KindLists(k) : k \in [DOMAIN SchemaFields -> Kinds]}
    /\ np_random_state = 0
    /\ pc = "assign_types"
    /\ error = "None"
    /\ executed = <<"read_csv", "select", "rename">>
    /\ label_encoder = <<>>
    /\ X_train_df = EmptyFrame
    /\ X_test_df = EmptyFrame
    /\ y_train_df = EmptyFrame
    /\ y_test_df = EmptyFrame
    /\ files = NoFiles
    /\ s3 = NoFiles
    /\ train_input_data_location = "None"
    /\ test_input_data_location = "None"
    /\ fit_inputs = "None"
    /\ transform_data = "None"
    /\ id_selected_df = 2
    /\ LaterCellsIdle
    /\ AccountIdle

NextTypes == AssignTypes

SpecTypes == InitTypes /\ [][NextTypes]_vars

----------------------------------------------------------------------------------
(* The configuration of the message validation service (application.yml)  *)

\* the list with a second entry for GB, as a merge of two lists would leave it
Currency_duplicate_country ==
    << [Country |-> "US", Code |-> "USD"],
       [Country |-> "UK", Code |-> "GBP"],
       [Country |-> "GB", Code |-> "GBP"],
       [Country |-> "IN", Code |-> "INR"],
       [Country |-> "MX", Code |-> "MXN"],
       [Country |-> "CA", Code |-> "CAD"],
       [Country |-> "IE", Code |-> "EUR"],
       [Country |-> "TH", Code |-> "THB"],
       [Country |-> "GB", Code |-> "EUR"] >>

\* rapide.Currency: the list of Country/Code entries
Currency ==
    << [Country |-> "US", Code |-> "USD"],
       [Country |-> "UK", Code |-> "GBP"],
       [Country |-> "GB", Code |-> "GBP"],
       [Country |-> "IN", Code |-> "INR"],
       [Country |-> "MX", Code |-> "MXN"],
       [Country |-> "CA", Code |-> "CAD"],
       [Country |-> "IE", Code |-> "EUR"],
       [Country |-> "TH", Code |-> "THB"] >>

\* the currency codes the list gives for a country
CurrencyCodes(country) ==
    {Currency[i].Code : i \in {j \in DOMAIN Currency : Currency[j].Country = country}}

----------------------------------------------------------------------------
(* The sample inference requests of the pipeline notebooks *)

\* the positions of the commas of a line, and its fields: line.split(",")
comma_positions(line) == {i \in 1..Len(line) : SubSeq(line, i, i) = ","}

\* a split that drops the empty fields at the end of the line
csv_fields_drop_trailing_empty(line) ==
    LET commas == comma_positions(line)
        last   == IF \E i \in 1..Len(line) : SubSeq(line, i, i) # ","
                  THEN CHOOSE i \in 1..Len(line) :
                           /\ SubSeq(line, i, i) # ","
                           /\ \A j \in (i + 1)..Len(line) : SubSeq(line, j, j) = ","
                  ELSE 0
        kept   == {i \in commas : i < last}
        at(k)  == CHOOSE i \in kept : Cardinality({j \in kept : j < i}) = k - 1
    IN  [k \in 1..(IF last = 0 THEN 0 ELSE Cardinality(kept) + 1) |->
            SubSeq(line,
                   IF k = 1 THEN 1 ELSE at(k - 1) + 1,
                   IF k = Cardinality(kept) + 1 THEN last ELSE at(k) - 1)]

csv_fields(line) ==
    LET commas == comma_positions(line)
        at(k)  == CHOOSE i \in commas : Cardinality({j \in commas : j < i}) = k - 1
    IN  [k \in 1..(Cardinality(commas) + 1) |->
            SubSeq(line,
                   IF k = 1 THEN 1 ELSE at(k - 1) + 1,
                   IF k = Cardinality(commas) + 1 THEN Len(line) ELSE at(k) - 1)]

payload_1 == "MX,GB,,,,/SVC/It is to be delivered in four days. Greater than four days penalty add 2bp per day"
payload_2 == "MX,GB,,,,"
payload_3 == "TH,US,,,,/SVC/It is to be delivered in four days. Greater than four days penalty add 2bp per day"
payload_4 == "IN,CA,DEBT,IN,00.P0006,"
\* payload_5 as the last of its assignments leaves it
payload_5_linear_learner == "IE,IN,CRED,IN,0,/REG/15.X0004 retail"
payload_5_xgboost == "GB,IN,CRED,IN,0,/REG/15.X0001 FDI in Retail"
payload_6 == "IE,IN,CRED,IN,0,/REG/99.C34698"

\* the requests each pipeline notebook sends, in order
payloads ==
    [linear_learner |-> << payload_1, payload_2, payload_3, payload_4,
                           payload_5_linear_learner, payload_6 >>,
     xgboost        |-> << payload_1, payload_2, payload_3, payload_4,
                           payload_5_xgboost, payload_6 >>]

----------------------------------------------------------------------------
(* The cells after the data preparation: the pipeline notebooks *)

\* groups of names, for the cells that leave them alone
transformation == <<fit_inputs, transform_data, transform_job, preprocessed_train>>
training       == <<training_job, data_channels>>
deployment     == <<timestamp_prefix, model_name, endpoint_name>>
autopilot_job  == <<auto_ml_job_name, job_run_status, best_candidate>>
autopilot      == <<AutoMLJobStatus, BestCandidate>>
other_cells    == <<prediction, y_pred, user_ns>>

\* base_job_name of the estimator of the training cell
training_job_names ==
    [linear_learner |-> "pacs008-ll-training", xgboost |-> "pacs008-xgb-training"]

model_name_prefix ==
    [linear_learner |-> "pacs008-ll-inference-pipeline-",
     xgboost        |-> "pacs008-xgboost-inference-pipeline-"]

endpoint_name_prefix ==
    [linear_learner |-> "pacs008-ll-inference-pipeline-ep-",
     xgboost        |-> "pacs008-xgboost-inference-pipeline-ep-"]

\* the value the request cell assigns to endpoint_name before it builds the
\* Predictor
request_endpoint_name ==
    [linear_learner |-> "pacs008-ll-inference-pipeline-ep-2021-11-25-00-58-52",
     xgboost        |-> "pacs008-xgboost-inference-pipeline-ep-2021-11-25-01-32-31"]

\* a training cell that trains on the uploaded file, not on the output of the
\* transform job
Train_on_uploaded_file ==
    /\ pc = "prepared"
    /\ notebook \in PipelineNotebooks
    /\ training_job_name' = training_job_names[notebook]
    /\ data_channels' = Write(NoFiles, "train", train_input_data_location)
    /\ \E status \in {"Completed", "Failed"} :
           /\ training_job' = status
           /\ IF status = "Completed"
              THEN Completed("train", "deploy")
              ELSE Raise("UnexpectedStatusException") /\ UNCHANGED executed
    /\ UNCHANGED <<notebook, prepared_data, transformation, deployment, models, endpoints,
                   store, gmtime, autopilot_job, autopilot, other_cells, stdout>>

\* the training cell: the estimator, its hyperparameters, the TrainingInput on
\* preprocessed_train, data_channels = {"train": ...} and estimator.fit(inputs=
\* data_channels, logs=True), which raises unless the training job completes
Train ==
    /\ pc = "prepared"
    /\ notebook \in PipelineNotebooks
    /\ training_job_name' = training_job_names[notebook]
    /\ data_channels' = Write(NoFiles, "train", preprocessed_train)
    /\ \E status \in {"Completed", "Failed"} :
           /\ training_job' = status
           /\ IF status = "Completed"
              THEN Completed("train", "deploy")
              ELSE Raise("UnexpectedStatusException") /\ UNCHANGED executed
    /\ UNCHANGED <<notebook, prepared_data, transformation, deployment, models, endpoints,
                   store, gmtime, autopilot_job, autopilot, other_cells, stdout>>

\* the deployment cell: the two names made from the clock, the PipelineModel
\* and sm_model.deploy(..., endpoint_name=endpoint_name), which creates the
\* model and the endpoint and raises if the account has one of that name
Deploy ==
    /\ pc = "deploy"
    /\ timestamp_prefix' = gmtime
    /\ model_name' = model_name_prefix[notebook] \o gmtime
    /\ endpoint_name' = endpoint_name_prefix[notebook] \o gmtime
    /\ IF (model_name_prefix[notebook] \o gmtime) \in models
          \/ (endpoint_name_prefix[notebook] \o gmtime) \in endpoints
       THEN /\ Raise("ClientError")
            /\ UNCHANGED <<models, endpoints, executed>>
       ELSE /\ models' = models \cup {model_name_prefix[notebook] \o gmtime}
            /\ endpoints' = endpoints \cup {endpoint_name_prefix[notebook] \o gmtime}
            /\ Completed("deploy", "store")
    /\ UNCHANGED <<notebook, prepared_data, transformation, training, training_job_name,
                   store, gmtime, autopilot_job, autopilot, other_cells, stdout>>

\* a store cell placed after the request cell
StoreNames_after_request ==
    /\ pc = "store"
    /\ store' = Write(Write(store, "model_name", model_name),
                      "endpoint_name", request_endpoint_name[notebook])
    /\ Completed("store", "predict")
    /\ UNCHANGED <<notebook, prepared_data, transformation, training, training_job_name,
                   deployment, models, endpoints, gmtime, autopilot_job, autopilot,
                   other_cells, stdout>>

\* %store model_name and %store endpoint_name
StoreNames ==
    /\ pc = "store"
    /\ store' = Write(Write(store, "model_name", model_name), "endpoint_name", endpoint_name)
    /\ Completed("store", "predict")
    /\ UNCHANGED <<notebook, prepared_data, transformation, training, training_job_name,
                   deployment, models, endpoints, gmtime, autopilot_job, autopilot,
                   other_cells, stdout>>

\* decimal.Decimal(text) for the texts of a finite decimal without sign or
\* exponent: the digits as an integer and the exponent of the last digit
decimal_digits == "0123456789"

is_digit(c) == \E d \in 1..10 : SubSeq(decimal_digits, d, d) = c

digit_value(c) == CHOOSE d \in 0..9 : SubSeq(decimal_digits, d + 1, d + 1) = c

point_positions(text) == {i \in 1..Len(text) : SubSeq(text, i, i) = "."}

\* Decimal(text) raises InvalidOperation
decimal_raises(text) ==
    \/ Cardinality(point_positions(text)) > 1
    \/ \A i \in 1..Len(text) : ~is_digit(SubSeq(text, i, i))
    \/ \E i \in 1..Len(text) : ~is_digit(SubSeq(text, i, i)) /\ SubSeq(text, i, i) # "."

RECURSIVE coefficient(_)
coefficient(text) ==
    IF text = "" THEN 0
    ELSE LET c    == SubSeq(text, Len(text), Len(text))
             rest == SubSeq(text, 1, Len(text) - 1)
         IN  IF c = "." THEN coefficient(rest) ELSE 10 * coefficient(rest) + digit_value(c)

Decimal(text) ==
    [coefficient |-> coefficient(text),
     exponent    |-> IF point_positions(text) = {} THEN 0
                     ELSE (CHOOSE i \in point_positions(text) : TRUE) - Len(text)]

RECURSIVE pow10(_)
pow10(n) == IF n = 0 THEN 1 ELSE 10 * pow10(n - 1)

\* the quotient q with remainder r of a division by m, rounded to nearest
ROUND_HALF_EVEN(q, r, m) == IF 2 * r > m \/ (2 * r = m /\ q % 2 = 1) THEN q + 1 ELSE q

ROUND_HALF_UP(q, r, m) == IF 2 * r >= m THEN q + 1 ELSE q

\* d.quantize(Decimal('.0000001'), rounding=...) of a decimal that is not
\* negative, in units of the seventh decimal place
quantize_half_even(d) ==
    IF d.exponent >= -7 THEN d.coefficient * pow10(7 + d.exponent)
    ELSE LET m == pow10(-7 - d.exponent)
         IN  ROUND_HALF_EVEN(d.coefficient \div m, d.coefficient % m, m)

quantize(d) ==
    IF d.exponent >= -7 THEN d.coefficient * pow10(7 + d.exponent)
    ELSE LET m == pow10(-7 - d.exponent)
         IN  ROUND_HALF_UP(d.coefficient \div m, d.coefficient % m, m)

\* Decimal(0.5).quantize(Decimal('.0000001'), rounding=ROUND_HALF_UP)
half_decimal == quantize(Decimal("0.5"))

\* def prediction_proba(prediction), for a response that Decimal accepts
prediction_proba(p) ==
    LET y_pred_str == p
    IN  IF quantize(Decimal(y_pred_str)) > half_decimal
        THEN "Predicted: Success, Probability: " \o y_pred_str
        ELSE "Predicted: Failure, Probability: " \o y_pred_str

\* the responses of an endpoint in service
Responses == {"0.0620515", "0.9379485"}

\* the request cell: the six payloads, endpoint_name assigned the literal, the
\* Predictor on it and the six predictor.predict calls, which raise when the
\* account has no endpoint of that name; the xgboost notebook prints
\* prediction_proba of each response, the linear learner notebook the response
Predict ==
    /\ pc = "predict"
    /\ endpoint_name' = request_endpoint_name[notebook]
    /\ IF request_endpoint_name[notebook] \notin endpoints
       THEN /\ Raise("ClientError")
            /\ UNCHANGED <<stdout, executed>>
       ELSE /\ \E response \in [DOMAIN payloads[notebook] -> Responses] :
                  stdout' = [i \in DOMAIN payloads[notebook] |->
                                IF notebook = "xgboost"
                                THEN prediction_proba(response[i])
                                ELSE response[i]]
            /\ Completed("predict", "delete_endpoint")
    /\ UNCHANGED <<notebook, prepared_data, transformation, training, training_job_name,
                   timestamp_prefix, model_name, models, endpoints, store, gmtime,
                   autopilot_job, autopilot, other_cells>>

\* sm_client.delete_endpoint(EndpointName=endpoint_name)
DeleteEndpoint ==
    /\ pc = "delete_endpoint"
    /\ IF endpoint_name \notin endpoints
       THEN /\ Raise("ClientError")
            /\ UNCHANGED <<endpoints, executed>>
       ELSE /\ endpoints' = endpoints \ {endpoint_name}
            /\ Completed("delete_endpoint", "done")
    /\ UNCHANGED <<notebook, prepared_data, transformation, training, training_job_name,
                   deployment, models, store, gmtime, autopilot_job, autopilot,
                   other_cells, stdout>>

----------------------------------------------------------------------------
(* The cells after the data preparation: the Autopilot notebook *)

\* the statuses the monitoring loop stops at, with Stopping among them
terminal_statuses_with_stopping == {"Failed", "Completed", "Stopped", "Stopping"}

\* the statuses the monitoring loop stops at
terminal_statuses == {"Failed", "Completed", "Stopped"}

\* the name of the candidate the job of that name trains
candidate_name(job_name) == job_name \o "-trial-1"

\* timestamp_suffix = strftime('%Y-%m-%d-%H-%M', gmtime()), auto_ml_job_name =
\* 'pacs008-automl-' + timestamp_suffix and sm.create_auto_ml_job(...)
CreateAutoMLJob ==
    /\ pc = "prepared"
    /\ notebook = "automl"
    /\ auto_ml_job_name' = "pacs008-automl-" \o SubSeq(gmtime, 1, 16)
    /\ AutoMLJobStatus' = "InProgress"
    /\ Completed("create_auto_ml_job", "describe")
    /\ UNCHANGED <<notebook, prepared_data, transformation, training, training_job_name,
                   deployment, models, endpoints, store, gmtime, job_run_status,
                   best_candidate, BestCandidate, other_cells, stdout>>

\* the monitoring cell up to its loop: describe_response =
\* sm.describe_auto_ml_job(...), job_run_status = describe_response['AutoMLJobStatus']
MonitorDescribe ==
    /\ pc = "describe"
    /\ job_run_status' = AutoMLJobStatus
    /\ pc' = "while"
    /\ UNCHANGED <<notebook, error, executed, prepared_data, transformation, training,
                   training_job_name, deployment, models, endpoints, store, gmtime,
                   auto_ml_job_name, best_candidate, autopilot, other_cells, stdout>>

\* one pass of the loop: the test holds, describe, job_run_status, print, sleep(30)
MonitorLoop ==
    /\ pc = "while"
    /\ job_run_status \notin terminal_statuses
    /\ job_run_status' = AutoMLJobStatus
    /\ pc' = "while"
    /\ UNCHANGED <<notebook, error, executed, prepared_data, transformation, training,
                   training_job_name, deployment, models, endpoints, store, gmtime,
                   auto_ml_job_name, best_candidate, autopilot, other_cells, stdout>>

\* the test of the loop fails: the cell is over
MonitorExit ==
    /\ pc = "while"
    /\ ~(job_run_status \notin terminal_statuses)
    /\ Completed("monitor", "best_candidate")
    /\ UNCHANGED <<notebook, prepared_data, transformation, training, training_job_name,
                   deployment, models, endpoints, store, gmtime, autopilot_job, autopilot,
                   other_cells, stdout>>

\* best_candidate = sm.describe_auto_ml_job(...)['BestCandidate'], which raises
\* KeyError when the response has no best candidate
ReadBestCandidate ==
    /\ pc = "best_candidate"
    /\ IF BestCandidate = "None"
       THEN /\ Raise("KeyError")
            /\ UNCHANGED <<best_candidate, executed>>
       ELSE /\ best_candidate' = BestCandidate
            /\ Completed("best_candidate", "candidates")
    /\ UNCHANGED <<notebook, prepared_data, transformation, training, training_job_name,
                   deployment, models, endpoints, store, gmtime, auto_ml_job_name,
                   job_run_status, autopilot, other_cells, stdout>>

\* the cells that update the environment of the inference containers of
\* best_candidate, list the candidates and show the two generated notebooks
InspectCandidates ==
    /\ pc = "candidates"
    /\ Completed("candidates", "store_training_job_name")
    /\ UNCHANGED <<notebook, prepared_data, transformation, training, training_job_name,
                   deployment, models, endpoints, store, gmtime, autopilot_job, autopilot,
                   other_cells, stdout>>

\* training_job_name = candidates[0]['CandidateName'] and %store training_job_name
StoreTrainingJobName ==
    /\ pc = "store_training_job_name"
    /\ training_job_name' = BestCandidate
    /\ store' = Write(store, "training_job_name", BestCandidate)
    /\ Completed("store_training_job_name", "create_model")
    /\ UNCHANGED <<notebook, prepared_data, transformation, training, deployment, models,
                   endpoints, gmtime, autopilot_job, autopilot, other_cells, stdout>>

\* model_name = auto_ml_job_name and sm.create_model(Containers=
\* best_candidate['InferenceContainers'], ModelName=model_name, ...), which
\* raises if the account has a model of that name
CreateModel ==
    /\ pc = "create_model"
    /\ model_name' = auto_ml_job_name
    /\ IF auto_ml_job_name \in models
       THEN /\ Raise("ClientError")
            /\ UNCHANGED <<models, executed>>
       ELSE /\ models' = models \cup {auto_ml_job_name}
            /\ Completed("create_model", "store_model_name")
    /\ UNCHANGED <<notebook, prepared_data, transformation, training, training_job_name,
                   timestamp_prefix, endpoint_name, endpoints, store, gmtime,
                   autopilot_job, autopilot, other_cells, stdout>>

\* %store model_name
StoreModelName ==
    /\ pc = "store_model_name"
    /\ store' = Write(store, "model_name", model_name)
    /\ Completed("store_model_name", "done")
    /\ UNCHANGED <<notebook, prepared_data, transformation, training, training_job_name,
                   deployment, models, endpoints, gmtime, autopilot_job, autopilot,
                   other_cells, stdout>>

\* the Autopilot job, run by the service: a first candidate is trained
JobTrainsCandidate ==
    /\ AutoMLJobStatus = "InProgress"
    /\ BestCandidate = "None"
    /\ BestCandidate' = candidate_name(auto_ml_job_name)
    /\ UNCHANGED <<notebook, pc, error, executed, prepared_data, transformation, training,
                   training_job_name, deployment, models, endpoints, store, gmtime,
                   autopilot_job, AutoMLJobStatus, other_cells, stdout>>

\* the job ends by itself, completed (it has a best candidate then) or failed,
\* or is asked to stop
JobEnds ==
    /\ AutoMLJobStatus = "InProgress"
    /\ \E status \in {"Completed", "Failed", "Stopping"} :
           /\ AutoMLJobStatus' = status
           /\ BestCandidate' = IF status = "Completed"
                               THEN candidate_name(auto_ml_job_name)
                               ELSE BestCandidate
    /\ UNCHANGED <<notebook, pc, error, executed, prepared_data, transformation, training,
                   training_job_name, deployment, models, endpoints, store, gmtime,
                   autopilot_job, other_cells, stdout>>

\* a job asked to stop stops
JobStops ==
    /\ AutoMLJobStatus = "Stopping"
    /\ AutoMLJobStatus' = "Stopped"
    /\ UNCHANGED <<notebook, pc, error, executed, prepared_data, transformation, training,
                   training_job_name, deployment, models, endpoints, store, gmtime,
                   autopilot_job, BestCandidate, other_cells, stdout>>

----------------------------------------------------------------------------
(* A whole notebook run in an account of any history *)

\* values of the clock when the deployment cell (or the cell that creates the
\* Autopilot job) runs: those of the two runs the request cells name, and a
\* later one
Clock == {"2021-11-25-00-58-52", "2021-11-25-01-32-31", "2022-03-01-12-00-00"}

\* the store an earlier run of the linear learner notebook left
earlier_store ==
    Write(Write(NoFiles, "model_name", "pacs008-ll-inference-pipeline-2021-11-25-00-58-52"),
          "endpoint_name", request_endpoint_name["linear_learner"])

\* the kernel before the first cell, the labeled file holding three records
InitPlatform ==
    /\ notebook \in Notebooks
    /\ labeled_csv = CsvFile(fts, <<1, 2, 3>>)
    /\ np_random_state = 0
    /\ pc = "read_csv"
    /\ error = "None"
    /\ executed = <<>>
    /\ labeled_raw_df = EmptyFrame
    /\ selected_df = EmptyFrame
    /\ label_encoder = <<>>
    /\ X_train_df = EmptyFrame
    /\ X_test_df = EmptyFrame
    /\ y_train_df = EmptyFrame
    /\ y_test_df = EmptyFrame
    /\ files = NoFiles
    /\ s3 = NoFiles
    /\ train_input_data_location = "None"
    /\ test_input_data_location = "None"
    /\ schema = NotebookKinds
    /\ fit_inputs = "None"
    /\ transform_data = "None"
    /\ id_selected_df = 0
    /\ LaterCellsIdle
    /\ gmtime \in Clock
    /\ models = {}
    /\ endpoints \in SUBSET {request_endpoint_name[nb] : nb \in PipelineNotebooks}
    /\ store \in {NoFiles, earlier_store}
    /\ AutoMLJobStatus = "None"
    /\ BestCandidate = "None"

NextPlatform ==
    \/ Next
    \/ Train
    \/ Deploy
    \/ StoreNames
    \/ Predict
    \/ DeleteEndpoint
    \/ CreateAutoMLJob
    \/ MonitorDescribe
    \/ MonitorLoop
    \/ MonitorExit
    \/ ReadBestCandidate
    \/ InspectCandidates
    \/ StoreTrainingJobName
    \/ CreateModel
    \/ StoreModelName
    \/ JobTrainsCandidate
    \/ JobEnds
    \/ JobStops

SpecPlatform == InitPlatform /\ [][NextPlatform]_vars

\* the kernel runs the next cell, and the next pass of a loop, whenever there
\* is one; the Autopilot job does not stay in progress, or stopping, forever
FairPlatform ==
    /\ WF_vars(MonitorDescribe)
    /\ WF_vars(MonitorLoop)
    /\ WF_vars(MonitorExit)
    /\ WF_vars(JobEnds)
    /\ WF_vars(JobStops)

SpecPlatformFair == SpecPlatform /\ FairPlatform

----------------------------------------------------------------------------
(* prediction_proba on its own: the response of the endpoint is any text   *)

\* longest fraction of a response (decimal places)
MaxDecimals == 8

RECURSIVE concat(_)
concat(texts) == IF texts = <<>> THEN "" ELSE Head(texts) \o concat(Tail(texts))

\* responses: probabilities about one half, of up to MaxDecimals places, the
\* two ends of the scale, and two bodies that are no decimal
ProbabilityTexts ==
    {"0." \o concat(d) : d \in SeqsUpTo({"0", "4", "5"}, MaxDecimals)}
        \cup {"0", "1", "1.0", "", "0.5,0.5"}

\* nothing is bound yet by the data preparation cells
KernelIdle ==
    /\ labeled_csv = CsvFile(fts, <<>>)
    /\ np_random_state = 0
    /\ executed = <<>>
    /\ labeled_raw_df = EmptyFrame
    /\ selected_df = EmptyFrame
    /\ id_selected_df = 0
    /\ label_encoder = <<>>
    /\ X_train_df = EmptyFrame
    /\ X_test_df = EmptyFrame
    /\ y_train_df = EmptyFrame
    /\ y_test_df = EmptyFrame
    /\ files = NoFiles
    /\ s3 = NoFiles
    /\ train_input_data_location = "None"
    /\ test_input_data_location = "None"
    /\ schema = NotebookKinds
    /\ fit_inputs = "None"
    /\ transform_data = "None"

\* a call of prediction_proba with the body of a response
InitProba ==
    /\ notebook = "xgboost"
    /\ pc = "prediction_proba"
    /\ error = "None"
    /\ KernelIdle
    /\ transform_job = "None"
    /\ preprocessed_train = "None"
    /\ training_job = "None"
    /\ data_channels = NoFiles
    /\ timestamp_prefix = "None"
    /\ model_name = "None"
    /\ endpoint_name = "None"
    /\ auto_ml_job_name = "None"
    /\ job_run_status = "None"
    /\ best_candidate = "None"
    /\ training_job_name = "None"
    /\ prediction \in ProbabilityTexts
    /\ y_pred = "None"
    /\ user_ns = NoFiles
    /\ stdout = <<>>
    /\ AccountIdle

\* the call returns its text, or raises where Decimal does
PredictionProba ==
    /\ pc = "prediction_proba"
    /\ IF decimal_raises(prediction)
       THEN /\ Raise("InvalidOperation")
            /\ UNCHANGED y_pred
       ELSE /\ y_pred' = prediction_proba(prediction)
            /\ pc' = "returned"
            /\ error' = error
    /\ UNCHANGED <<notebook, executed, prepared_data, transformation, training,
                   training_job_name, deployment, models, endpoints, store, gmtime,
                   autopilot_job, autopilot, prediction, user_ns, stdout>>

NextProba == PredictionProba

SpecProba == InitProba /\ [][NextProba]_vars

----------------------------------------------------------------------------
(* The synthetic BIC cells of the dataset notebook *)

\* number of records create_data is asked for
MaxBics == 2

countries == << "US", "CA", "IN", "GB", "TH", "MX", "IE" >>

\* codes generator.swift(length=8) can return: four letters of a bank, two of
\* a country, two characters of a location
SwiftCodes == {"USBKUS33", "DEUTDEIN", "ABCDGBCA"}

\* random_bic = bic[0:4] + country + bic[6:8]
random_bic(bic, country) == SubSeq(bic, 1, 4) \o country \o SubSeq(bic, 7, 8)

\* the values of the column BIC CODE of a record
BicCodes == {random_bic(bic, countries[c]) : bic \in SwiftCodes, c \in DOMAIN countries}

\* Series.str.contains(pat) for a pattern of letters
contains(text, pat) ==
    \E i \in 1..(Len(text) - Len(pat) + 1) : SubSeq(text, i, i + Len(pat) - 1) = pat

\* df[df['BIC CODE'].astype(str).str.contains(pat)].shape; the frame has the
\* 19 columns create_data fills
bic_columns == 19

shape_containing(codes, pat) ==
    << Cardinality({k \in DOMAIN codes : contains(codes[k], pat)}), bic_columns >>

\* the statements of the summary cell, in order
assign(name, pat) == [op |-> "assign", name |-> name, text |-> pat]

print_count(label, name) == [op |-> "print", name |-> name, text |-> label]

print_unique(label) == [op |-> "print_unique", name |-> "df", text |-> label]

summary_cell ==
    << print_unique("Unique BICs"),
       print_unique("Unique BICs"),
       assign("us_shape", "US"), print_count("US BICs", "in_shape"),
       assign("ca_shape", "CA"), print_count("Canada BICs", "in_shape"),
       assign("gb_shape", "GB"), print_count("Great Britain BICs", "in_shape"),
       assign("in_shape", "IN"), print_count("India BICs", "in_shape"),
       assign("th_shape", "TH"), print_count("Thailand BICs", "in_shape"),
       assign("mx_shape", "MX"), print_count("Mexico BICs", "in_shape"),
       assign("ie_shape", "IE"), print_count("Ireland BICs", "in_shape"),
       print_unique("All BICS") >>

\* the kernel running statements in order: a name that is read and not bound
\* raises NameError and ends the cell
RECURSIVE run_cell(_, _, _)
run_cell(statements, ns, out) ==
    IF statements = <<>> THEN [user_ns |-> ns, stdout |-> out, error |-> "None"]
    ELSE LET s == Head(statements)
         IN  IF (IF s.op = "assign" THEN "df" ELSE s.name) \notin DOMAIN ns
             THEN [user_ns |-> ns, stdout |-> out, error |-> "NameError"]
             ELSE CASE s.op = "assign" ->
                         run_cell(Tail(statements),
                                  Write(ns, s.name, shape_containing(ns["df"], s.text)), out)
                    [] s.op = "print" ->
                         run_cell(Tail(statements), ns,
                                  Append(out, [label |-> s.text, value |-> ns[s.name][1]]))
                    [] s.op = "print_unique" ->
                         run_cell(Tail(statements), ns,
                                  Append(out, [label |-> s.text,
                                               value |-> Cardinality(Range(ns[s.name]))]))

\* a fresh kernel of the dataset notebook, before the cell that builds the frame
InitBic ==
    /\ notebook = "dataset"
    /\ pc = "create_data"
    /\ error = "None"
    /\ KernelIdle
    /\ LaterCellsIdle
    /\ AccountIdle

\* df = pd.DataFrame(create_data(...)).transpose(): the column BIC CODE
CreateData ==
    /\ pc = "create_data"
    /\ \E codes \in [1..MaxBics -> BicCodes] : user_ns' = Write(user_ns, "df", codes)
    /\ pc' = "summary"
    /\ UNCHANGED <<notebook, error, executed, prepared_data, transformation, training,
                   training_job_name, deployment, models, endpoints, store, gmtime,
                   autopilot_job, autopilot, prediction, y_pred, stdout>>

\* the summary cell
SummaryCell ==
    /\ pc = "summary"
    /\ LET r == run_cell(summary_cell, user_ns, <<>>)
       IN  /\ user_ns' = r.user_ns
           /\ stdout' = r.stdout
           /\ error' = r.error
           /\ pc' = IF r.error = "None" THEN "done" ELSE "aborted"
    /\ UNCHANGED <<notebook, executed, prepared_data, transformation, training,
                   training_job_name, deployment, models, endpoints, store, gmtime,
                   autopilot_job, autopilot, prediction, y_pred>>

NextBic == CreateData \/ SummaryCell

SpecBic == InitBic /\ [][NextBic]_vars

----------------------------------------------------------------------
(* Properties *)

Last(s) == s[Len(s)]

\* the frame handed to train_test_split
SplitInput == IF notebook = "automl" THEN labeled_raw_df ELSE selected_df

\* train_test_split has returned
SplitDone == IsIn("split", executed)

\* train_test_split has raised
SplitRaised ==
    /\ pc = "aborted"
    /\ error = "ValueError"
    /\ Last(executed) = (IF notebook = "automl" THEN "read_csv" ELSE "encode_target")

\* the row of df labelled i
RowAt(df, i) == df.data[IndexOf(i, df.index)]

\* train and test partition the rows of df, each row carried over whole
IsPartition(df, train, test) ==
    /\ Range(train.index) \cap Range(test.index) = {}
    /\ Range(train.index) \cup Range(test.index) = Range(df.index)
    /\ NoDuplicates(train.index \o test.index)
    /\ NRows(train) + NRows(test) = NRows(df)
    /\ \A k \in 1..NRows(train) : train.data[k] = RowAt(df, train.index[k])
    /\ \A k \in 1..NRows(test) : test.data[k] = RowAt(df, test.index[k])
    /\ train.columns = df.columns /\ test.columns = df.columns

\* round(n * f) as Python rounds: to the nearest integer, a tie to the even one
round_mul(n, f) ==
    LET q == (n * f.num) \div f.den
        r == (n * f.num) % f.den
    IN  IF 2 * r < f.den THEN q
        ELSE IF 2 * r > f.den THEN q + 1
        ELSE IF q % 2 = 0 THEN q ELSE q + 1

\* C1 as stated: for every non-empty record set the split returns a train and
\* a test subset that partition the input rows.
C1_Original ==
    ((SplitDone \/ SplitRaised) /\ NRows(SplitInput) >= 1)
        => (SplitDone /\ IsPartition(SplitInput, X_train_df, X_test_df))

\* C1 (amended): whenever train_test_split returns, which it does for every
\* record set of two or more rows, train and test are disjoint as sets of row
\* labels, their union is the input's row labels, and no row is duplicated,
\* lost or altered; on a one-row (or empty) set it raises ValueError instead.
C1_SplitPartitions ==
    /\ SplitDone => (NRows(SplitInput) >= 2 /\ IsPartition(SplitInput, X_train_df, X_test_df))
    /\ SplitRaised => NRows(SplitInput) <= 1

C1_Witness ==
    /\ SplitDone
    /\ NRows(SplitInput) = 3
    /\ NRows(X_train_df) = 2
    /\ X_train_df.index # <<0, 1>>

\* C2 as stated: the test subset has round(N * f) rows, the train subset the
\* rest.
C2_Original ==
    SplitDone =>
        /\ NRows(X_test_df) = round_mul(NRows(SplitInput), test_size)
        /\ NRows(X_train_df) = NRows(SplitInput) - NRows(X_test_df)

\* C2 (amended): whenever the split returns (N >= 2), len(test) is the ceiling
\* of N * 0.20, the least integer t with 5 * t >= N, and len(train) is
\* N - len(test); for N = 1 the split raises ValueError.
C2_TestSizeIsCeiling ==
    /\ SplitDone =>
        /\ NRows(SplitInput) >= 2
        /\ test_size.den * NRows(X_test_df) >= test_size.num * NRows(SplitInput)
        /\ test_size.den * (NRows(X_test_df) - 1) < test_size.num * NRows(SplitInput)
        /\ NRows(X_train_df) = NRows(SplitInput) - NRows(X_test_df)
    /\ (SplitRaised /\ NRows(SplitInput) >= 1) => NRows(SplitInput) = 1

C2_Witness ==
    /\ SplitDone
    /\ NRows(SplitInput) = 2
    /\ NRows(X_test_df) = 1
    /\ round_mul(2, test_size) = 0

TargetCount(label) ==
    LET c == IndexOf("y_target", labeled_csv.header)
    IN  Cardinality({r \in DOMAIN labeled_csv.rows : labeled_csv.rows[r][c] = label})

\* the labeled file holds 100 records, 60 "Success" and 40 "Failure"
IsScenario ==
    /\ IsIn("y_target", labeled_csv.header)
    /\ Len(labeled_csv.rows) = 60 + 40
    /\ TargetCount("Success") = 60
    /\ TargetCount("Failure") = 40

\* the code of label under the fitted encoder
LabelCode(label) == IndexOf(label, label_encoder) - 1

\* C4: on 100 labeled records, 60 "Success" and 40 "Failure", the test subset
\* has exactly 20 records and the train subset exactly 80, and the encoder
\* maps "Failure" to 0 and "Success" to 1.
C4_EndToEnd ==
    (IsScenario /\ SplitDone) =>
        /\ NRows(X_test_df) = 20
        /\ NRows(X_train_df) = 80
        /\ notebook \in PipelineNotebooks =>
            /\ Range(label_encoder) = {"Failure", "Success"}
            /\ LabelCode("Failure") = 0
            /\ LabelCode("Success") = 1
            /\ \A r \in 1..NRows(selected_df) :
                   ColumnValues(selected_df, "y_target")[r]
                       = IntV(IF ColumnValues(labeled_raw_df, "y_target")[r] = StrV("Success")
                              THEN 1 ELSE 0)

C4_Witness ==
    /\ IsScenario
    /\ SplitDone
    /\ notebook \in PipelineNotebooks
    /\ pc = "prepared"
    /\ ColumnValues(labeled_raw_df, "y_target")[1] = StrV("Success")

\* the target has been encoded
EncodeDone == IsIn("encode_target", executed)

\* the injective maps of 1..n onto itself
Perms(n) == {p \in [1..n -> 1..n] : \A i, j \in 1..n : p[i] = p[j] => i = j}

\* the distinct target texts of the labeled frame
TargetTexts == {v[2] : v \in Range(ColumnValues(labeled_raw_df, "y_target"))}

\* C5: the fitted label map is a bijection from the k distinct target texts
\* onto 0..k-1, numbered in lexicographic (code point) order of the texts;
\* every record carries the code of its text, and every permutation of the
\* rows yields the same map.
C5_LabelMapSorted ==
    (EncodeDone /\ NRows(labeled_raw_df) >= 1) =>
        LET y == ColumnValues(labeled_raw_df, "y_target")
            n == Len(y)
        IN  /\ NoDuplicates(label_encoder)
            /\ Range(label_encoder) = TargetTexts
            /\ {LabelCode(t) : t \in TargetTexts} = 0..(Cardinality(TargetTexts) - 1)
            /\ \A i, j \in DOMAIN label_encoder :
                   i < j => seq_less(CodePoints[label_encoder[i]], CodePoints[label_encoder[j]])
            /\ \A r \in 1..n :
                   ColumnValues(selected_df, "y_target")[r] = IntV(LabelCode(y[r][2]))
            /\ fit([r \in 1..n |-> y[n + 1 - r]]) = label_encoder
            /\ n <= MaxRows + 1 =>
                   \A p \in Perms(n) : fit([r \in 1..n |-> y[p[r]]]) = label_encoder

C5_Witness ==
    /\ EncodeDone
    /\ Len(label_encoder) = 3
    /\ ColumnValues(labeled_raw_df, "y_target") = <<StrV("Success"), StrV("Failure"), StrV("Failed")>>

\* C6: the encoding step replaces the target value of every record by the
\* code of that value under the fitted label map and changes nothing else:
\* row count, row order, the columns, and every other value stay as they were.
C6_EncodeFrame ==
    [][pc = "encode_target" =>
        /\ selected_df'.index = selected_df.index
        /\ selected_df'.columns = selected_df.columns
        /\ Len(selected_df'.data) = Len(selected_df.data)
        /\ \A r \in 1..NRows(selected_df) : \A c \in DOMAIN selected_df.columns :
               IF selected_df.columns[c] = "y_target"
               THEN /\ selected_df.data[r][c][2] \in Range(label_encoder')
                    /\ selected_df'.data[r][c]
                           = IntV(IndexOf(selected_df.data[r][c][2], label_encoder') - 1)
               ELSE /\ selected_df'.data[r][c] = selected_df.data[r][c]
                    /\ selected_df'.dtypes[c] = selected_df.dtypes[c]
    ]_vars

C6_Witness ==
    /\ pc = "split"
    /\ EncodeDone
    /\ NRows(selected_df) = 2
    /\ label_encoder = <<"Failure", "Success">>
    /\ ColumnValues(selected_df, "y_target") = <<IntV(1), IntV(0)>>

\* a name of fts is no column of the labeled file
FieldMissing == \E i \in DOMAIN fts : fts[i] \notin Range(labeled_csv.header)

\* C7: the selection has the rows of the input in the same order, exactly the
\* seven columns of fts (y_target among them) in the order of fts, and in
\* every row each column holds the value the input row has under that name.
C7_SelectFields ==
    (pc = "rename") =>
        /\ selected_df.columns = fts
        /\ Len(selected_df.columns) = 7
        /\ IsIn("y_target", selected_df.columns)
        /\ selected_df.index = labeled_raw_df.index
        /\ Len(selected_df.data) = Len(labeled_raw_df.data)
        /\ \A r \in 1..NRows(labeled_raw_df) :
               /\ DOMAIN selected_df.data[r] = DOMAIN fts
               /\ \A i \in DOMAIN fts : \A c \in DOMAIN labeled_raw_df.columns :
                      labeled_raw_df.columns[c] = fts[i]
                          => selected_df.data[r][i] = labeled_raw_df.data[r][c]

C7_Witness ==
    /\ pc = "rename"
    /\ NRows(selected_df) = 2
    /\ Len(labeled_raw_df.columns) = 8
    /\ labeled_raw_df.columns[8] = "y_target"

\* C8: when a name of fts is absent from the columns of the labeled file, the
\* select cell raises and the run stops there: no later stage is executed, no
\* frame is selected, no file is written and nothing is uploaded.
C8_SelectAborts ==
    (FieldMissing /\ notebook \in PipelineNotebooks) =>
        /\ pc \in {"read_csv", "select", "aborted"}
        /\ pc = "aborted" => error = "KeyError"
        /\ executed \in {<<>>, <<"read_csv">>}
        /\ selected_df = EmptyFrame
        /\ X_train_df = EmptyFrame /\ X_test_df = EmptyFrame
        /\ label_encoder = <<>>
        /\ files = NoFiles
        /\ s3 = NoFiles

C8_Witness ==
    /\ FieldMissing
    /\ notebook \in PipelineNotebooks
    /\ pc = "aborted"
    /\ error = "KeyError"
    /\ executed = <<"read_csv">>
    /\ NRows(labeled_raw_df) = 2
    /\ IsIn("y_target", labeled_raw_df.columns)

\* the name a column has after the rename
Renamed(name) == IF name \in DOMAIN rename_columns THEN rename_columns[name] ELSE name

\* C10: select followed by rename keeps the rows of the input in their order,
\* and the rename changes names only: the value at every (row, column
\* position), the dtypes and the order of the columns stay as they were.
C10_SelectRenameFrame ==
    /\ [](pc = "assign_types" =>
            /\ selected_df.index = labeled_raw_df.index
            /\ Len(selected_df.data) = Len(labeled_raw_df.data)
            /\ NoDuplicates(selected_df.columns)
            /\ \A r \in 1..NRows(labeled_raw_df) : \A i \in DOMAIN fts :
                   \A c \in DOMAIN labeled_raw_df.columns :
                       labeled_raw_df.columns[c] = fts[i]
                           => /\ selected_df.data[r][i] = labeled_raw_df.data[r][c]
                              /\ selected_df.columns[i] = Renamed(fts[i]))
    /\ [][pc = "rename" =>
            /\ selected_df'.data = selected_df.data
            /\ selected_df'.index = selected_df.index
            /\ selected_df'.dtypes = selected_df.dtypes
            /\ DOMAIN selected_df'.columns = DOMAIN selected_df.columns
            /\ \A i \in DOMAIN selected_df.columns :
                   selected_df'.columns[i] = Renamed(selected_df.columns[i])
       ]_vars

C10_Witness ==
    /\ pc = "assign_types"
    /\ NRows(selected_df) = 3
    /\ labeled_raw_df.columns # fts
    /\ selected_df.columns[2] = "Dbtr_PstlAdr_Ctry"
    /\ selected_df.data[3][2] = StrV("IE")

\* a key of the rename map is no column of df
KeyMissing(df) == \E k \in DOMAIN rename_columns : ~IsIn(k, df.columns)

\* applying the rename map to df yields two columns of one name
WouldCollide(df) == ~NoDuplicates([i \in DOMAIN df.columns |-> Renamed(df.columns[i])])

TypesDone == pc = "encode_target" /\ Last(executed) = "assign_types"

\* the typing loops have raised
TypesRaised == pc = "aborted" /\ executed # <<>> /\ Last(executed) = "rename"

\* C11: the typing loops are idempotent: run a second time, with the same
\* lists, on the frame they produced, they raise nothing and yield that same
\* frame (values, dtypes, columns and rows).
C11_AssignTypesIdempotent ==
    TypesDone =>
        LET again == assign_types(selected_df, schema)
        IN  /\ again.raised = "None"
            /\ again.df = selected_df

C11_Witness ==
    /\ TypesDone
    /\ schema.numeric_fts = <<"RgltryRptg_Dtls_Cd">>
    /\ schema.text_fts = <<"InstrForNxtAgt">>
    /\ ColumnValues(selected_df, "RgltryRptg_Dtls_Cd") = <<NaN, FloatV(0)>>
    /\ ColumnValues(selected_df, "Dbtr_PstlAdr_Ctry") = <<StrV("MX"), StrV("IE")>>
    /\ selected_df # rename(getitem(labeled_raw_df, fts), rename_columns)

\* the raw text of the labeled file at line r under the field renamed to name
RawText(r, name) ==
    LET c == CHOOSE c \in DOMAIN labeled_csv.header : Renamed(labeled_csv.header[c]) = name
    IN  labeled_csv.rows[r][c]

\* the text is a signed integer in base 10
ParsesAsInteger(t) == t \in DOMAIN IntLiterals

\* the text is a number (an IEEE double)
ParsesAsNumber(t) == t \in DOMAIN FloatLiterals

\* some raw value of a field of the list does not parse
SomeUnparsed(list, Parses(_)) ==
    \E i \in DOMAIN list : \E r \in DOMAIN labeled_csv.rows : ~Parses(RawText(r, list[i]))

\* C12 as stated: the typing step fails exactly when a raw value of an integer
\* field is no base-10 integer or a raw value of a numeric field is no number,
\* and when it succeeds every value of a categorical or text field is the raw
\* value unchanged.
C12_Original ==
    (TypesDone \/ TypesRaised) =>
        /\ TypesRaised <=> \/ SomeUnparsed(schema.integer_fts, ParsesAsInteger)
                           \/ SomeUnparsed(schema.numeric_fts, ParsesAsNumber)
        /\ TypesDone =>
               \A f \in Range(schema.categorical_fts) \cup Range(schema.text_fts) :
                   \A r \in 1..NRows(selected_df) :
                       ColumnValues(selected_df, f)[r] = StrV(RawText(r, f))

\* the names of the four lists of kinds
KindNames == {"categorical_fts", "integer_fts", "numeric_fts", "text_fts"}

\* the number of lists of kinds that name the field
ListsHolding(f) == Cardinality({k \in KindNames : IsIn(f, schema[k])})

\* the number of selected fields called name
FieldsNamed(name) ==
    Cardinality({i \in DOMAIN selected_df.columns : selected_df.columns[i] = name})

\* C13 as stated: among the selected fields exactly one, y_target, is the
\* target, every other selected field is in exactly one of the four lists,
\* and every name of a list is a selected field.
C13_Original ==
    (TypesDone /\ notebook \in PipelineNotebooks) =>
        /\ FieldsNamed("y_target") = 1
        /\ ListsHolding("y_target") = 0
        /\ \A f \in Range(selected_df.columns) \ {"y_target"} : ListsHolding(f) = 1
        /\ \A k \in KindNames : Range(schema[k]) \subseteq Range(selected_df.columns)

\* C13 (amended): among the selected fields exactly one, y_target, is the
\* target and is in no list; InstrForNxtAgt is in no list either (text is
\* left as object) and keeps the dtype it was read with; every other selected
\* field is in exactly one list, categorical_fts, and has the dtype category;
\* no list names a field twice and every name of a list is a selected field.
C13_SchemaWellFormed ==
    (TypesDone /\ notebook \in PipelineNotebooks) =>
        /\ FieldsNamed("y_target") = 1
        /\ ListsHolding("y_target") = 0
        /\ ListsHolding("InstrForNxtAgt") = 0
        /\ \A f \in Range(selected_df.columns) \ {"y_target", "InstrForNxtAgt"} :
               /\ ListsHolding(f) = 1
               /\ IsIn(f, schema.categorical_fts)
        /\ \A k \in KindNames :
               /\ Range(schema[k]) \subseteq Range(selected_df.columns)
               /\ NoDuplicates(schema[k])
        /\ \A i \in DOMAIN selected_df.columns :
               selected_df.dtypes[i] =
                   IF ListsHolding(selected_df.columns[i]) = 1 THEN "category"
                   ELSE getitem(labeled_raw_df, fts).dtypes[i]

C13_Witness ==
    /\ TypesDone
    /\ notebook = "xgboost"
    /\ NRows(selected_df) = 2
    /\ selected_df.columns[7] = "InstrForNxtAgt"
    /\ selected_df.dtypes[7] = "object"
    /\ selected_df.dtypes[6] = "category"
    /\ selected_df.dtypes[1] = "object"

\* the save cell of a pipeline notebook has run
WriteDone == notebook \in PipelineNotebooks /\ IsIn("to_csv", executed)

\* the fields of the line that record k of df makes
LineOf(df, k) == [c \in DOMAIN df.columns |-> csv_text(df.data[k][c])]

\* lines holds one line per record of df, in the order of df, each with one
\* field per column of df and the raw countries of the record it stands for
OneLinePerRecord(lines, df) ==
    /\ Len(lines) = NRows(df)
    /\ \A k \in 1..NRows(df) :
           /\ lines[k] = LineOf(df, k)
           /\ Len(lines[k]) = Len(fts)
           /\ lines[k][2] = RawText(df.index[k] + 1, "Dbtr_PstlAdr_Ctry")
           /\ lines[k][3] = RawText(df.index[k] + 1, "Cdtr_PstlAdr_Ctry")

\* C14: the save cell of a pipeline notebook writes exactly three files: the
\* training file with headers holds the row of field names followed by one
\* line per train record, the training file without headers the same lines
\* in the same order and no header row, the test file one line per test
\* record and no header row; every line has one field per selected field, so
\* no file holds an index column.
C14_ThreeCsvFiles ==
    WriteDone =>
        /\ DOMAIN files = {train_data_w_headers_output_path, train_data_output_path,
                           test_data_output_path}
        /\ LET w_headers == files[train_data_w_headers_output_path]
               train     == files[train_data_output_path]
               test      == files[test_data_output_path]
           IN  /\ Len(w_headers) = 1 + NRows(X_train_df)
               /\ w_headers[1] = [i \in DOMAIN fts |-> Renamed(fts[i])]
               /\ OneLinePerRecord(Tail(w_headers), X_train_df)
               /\ train = Tail(w_headers)
               /\ OneLinePerRecord(train, X_train_df)
               /\ OneLinePerRecord(test, X_test_df)
               /\ NRows(X_train_df) + NRows(X_test_df) = Len(labeled_csv.rows)

C14_Witness ==
    /\ WriteDone
    /\ Len(files[train_data_w_headers_output_path]) = 3
    /\ Len(files[train_data_output_path]) = 2
    /\ Len(files[test_data_output_path]) = 1
    /\ files[train_data_w_headers_output_path][1][7] = "InstrForNxtAgt"
    /\ files[test_data_output_path][1][2] = "TH"

\* the optional fields: the three regulatory reporting fields (categorical)
\* and the instruction text
OptionalFields ==
    {"RgltryRptg_DbtCdtRptgInd", "RgltryRptg_Authrty_Ctry", "RgltryRptg_Dtls_Cd",
     "InstrForNxtAgt"}

\* every line written for a record of df has a zero-length field at the
\* position of each optional field that is empty in the labeled file
EmptyFieldsKept(lines, df) ==
    \A k \in 1..NRows(df) :
        /\ Len(lines[k]) = Len(fts)
        /\ \A f \in OptionalFields :
               RawText(df.index[k] + 1, f) = "" => lines[k][IndexOf(f, df.columns)] = ""

\* C15 as stated: a record whose optional categorical or text field is empty
\* in the labeled file is written with a zero-length field at that column, in
\* each of the three files.
C15_Original ==
    WriteDone =>
        /\ EmptyFieldsKept(Tail(files[train_data_w_headers_output_path]), X_train_df)
        /\ EmptyFieldsKept(files[train_data_output_path], X_train_df)
        /\ EmptyFieldsKept(files[test_data_output_path], X_test_df)

\* the lines of a file written with a header row, as pd.read_csv takes them
AsCsvFile(lines) == [header |-> lines[1], rows |-> Tail(lines)]

\* the training file with headers read back and typed with the same lists
ReadBack == assign_types(read_csv(AsCsvFile(files[train_data_w_headers_output_path])), schema)

StageOrder == << "select", "rename", "assign_types", "encode_target", "split", "to_csv" >>

\* the stages among the cells executed so far, in execution order
Stages == SelectSeq(executed, LAMBDA x : IsIn(x, StageOrder))

\* the stages the notebook has: the Autopilot notebook's select is commented
\* out and it has no rename, typing or encoding cell
StagesOfNotebook ==
    IF notebook = "automl" THEN << "split", "to_csv" >> ELSE StageOrder

IsPrefix(p, q) == Len(p) <= Len(q) /\ SubSeq(q, 1, Len(p)) = p

\* C17 as stated: every run that has prepared its data has executed the six
\* stages, each once, in the order select, rename, assign types, encode
\* target, split, write.
C17_Original ==
    pc = "prepared" => Stages = StageOrder

\* C17 (amended): in a run of a pipeline notebook the stages executed so far
\* are at every moment a prefix of select, rename, assign types, encode
\* target, split, write (none before its predecessor, none skipped, none
\* repeated), a run that prepares its data has executed all six, and a run
\* that a stage aborts executes nothing more; the Autopilot notebook executes
\* only split and write, once each, in that order.
C17_StageOrder ==
    /\ [](/\ IsPrefix(Stages, StagesOfNotebook)
          /\ pc = "prepared" => Stages = StagesOfNotebook)
    /\ [][/\ pc # "aborted"
          /\ IsPrefix(executed, executed')
          /\ pc' # "aborted" => Len(executed') > Len(executed)
          /\ pc' = "aborted" => executed' = executed]_vars

C17_Witness ==
    /\ pc = "prepared"
    /\ notebook = "linear_learner"
    /\ Stages = StageOrder
    /\ executed = <<"read_csv">> \o StageOrder \o <<"upload", "fit", "transform">>
    /\ NRows(X_test_df) = 1

\* the locations handed to the feature transformation step so far
TransformationInputs == {fit_inputs, transform_data} \ {"None"}

\* C18 as stated: the location passed to sklearn_preprocessor.fit and to
\* transformer.transform is the uploaded training file with headers, and no
\* other file is passed to that step.
C18_Original ==
    \A loc \in TransformationInputs :
        /\ loc = training_headers_location
        /\ s3[loc] = files[train_data_w_headers_output_path]

\* C18 (amended): the location passed to sklearn_preprocessor.fit and to
\* transformer.transform is the uploaded training file without headers (the
\* value the second upload_data call leaves in train_input_data_location);
\* the training file with headers is uploaded too but is passed to neither,
\* and no other file is passed to that step.
C18_FitOnHeaderlessFile ==
    /\ \A loc \in TransformationInputs :
           /\ loc = training_data_location
           /\ loc = train_input_data_location
           /\ s3[loc] = files[train_data_output_path]
           /\ s3[loc] = to_csv(X_train_df, FALSE)
           /\ training_headers_location \in DOMAIN s3
           /\ s3[training_headers_location] = <<X_train_df.columns>> \o s3[loc]
    /\ IsIn("fit", executed) <=> fit_inputs # "None"
    /\ (IsIn("transform", executed) \/ transform_job = "Failed") <=> transform_data # "None"

C18_Witness ==
    /\ pc = "prepared"
    /\ notebook = "xgboost"
    /\ fit_inputs = training_data_location
    /\ transform_data = training_data_location
    /\ Len(s3[fit_inputs]) = 2
    /\ Len(s3[training_headers_location]) = 3
    /\ s3[training_headers_location][1][1] = "y_target"

\* the labeled file holds no record
EmptyDataset == Len(labeled_csv.rows) = 0

\* the split is the next statement and has a target column to work on
AtSplit ==
    \/ pc = "split"
    \/ pc = "automl_split" /\ IsIn("y_target", labeled_raw_df.columns)

\* C19: the split of an empty record set fails: train_test_split raises
\* (ValueError, the train set would be empty), no train or test frame is
\* bound, the run stops there and no file is written or uploaded afterwards.
C19_SplitEmptyFails ==
    /\ [](EmptyDataset =>
            /\ ~SplitDone
            /\ X_train_df = EmptyFrame /\ X_test_df = EmptyFrame
            /\ y_train_df = EmptyFrame /\ y_test_df = EmptyFrame
            /\ files = NoFiles
            /\ s3 = NoFiles
            /\ TransformationInputs = {}
            /\ pc \notin {"to_csv", "upload", "fit", "transform", "prepared"})
    /\ [][(AtSplit /\ NRows(SplitInput) = 0) =>
            /\ pc' = "aborted"
            /\ error' = "ValueError"
            /\ executed' = executed
            /\ UNCHANGED <<X_train_df, X_test_df, y_train_df, y_test_df, files, s3>>
       ]_vars

C19_Witness ==
    /\ EmptyDataset
    /\ SplitRaised
    /\ notebook = "linear_learner"
    /\ executed = <<"read_csv", "select", "rename", "assign_types", "encode_target">>
    /\ NRows(selected_df) = 0
    /\ Len(selected_df.columns) = 7

\* C20 as stated: the encoding of the target of an empty record set fails, so
\* a run on an empty labeled file never has an encoded frame and never
\* reaches the split.
C20_Original ==
    (EmptyDataset /\ notebook \in PipelineNotebooks) =>
        /\ ~EncodeDone
        /\ pc # "split"

\* C20 (amended): the encoding of the target of an empty record set does not
\* fail: fit_transform returns an empty encoded column and the encoder has no
\* classes (an empty label map); the run goes on to the split with zero
\* records, and it is the split that fails there (ValueError), before any
\* file is written.
C20_EncodeEmptyReturnsEmpty ==
    /\ []((EmptyDataset /\ EncodeDone) =>
            /\ label_encoder = <<>>
            /\ NRows(selected_df) = 0
            /\ ColumnValues(selected_df, "y_target") = <<>>
            /\ pc \in {"split", "aborted"}
            /\ pc = "aborted" => error = "ValueError"
            /\ files = NoFiles /\ s3 = NoFiles)
    /\ [][(pc = "encode_target" /\ NRows(selected_df) = 0) =>
            /\ pc' = "split"
            /\ error' = "None"
            /\ executed' = Append(executed, "encode_target")
            /\ label_encoder' = <<>>
            /\ selected_df'.columns = selected_df.columns
            /\ selected_df'.data = <<>>
       ]_vars

C20_Witness ==
    /\ EmptyDataset
    /\ EncodeDone
    /\ notebook = "xgboost"
    /\ pc = "split"
    /\ error = "None"
    /\ label_encoder = <<>>
    /\ Len(selected_df.columns) = 7
    /\ executed = <<"read_csv", "select", "rename", "assign_types", "encode_target">>

----------------------------------------------------------------------------
(* The configuration surface *)

\* the countries the list names
CurrencyCountries == {Currency[i].Country : i \in DOMAIN Currency}

\* the countries of the records of the frame read from the file
RecordCountries ==
    LET cols == {k \in DOMAIN labeled_raw_df.columns :
                     labeled_raw_df.columns[k] \in {fts[2], fts[3]}}
    IN  UNION {{labeled_raw_df.data[r][k][2] :
                   k \in {c \in cols : IsStr(labeled_raw_df.data[r][c])}} :
               r \in DOMAIN labeled_raw_df.data}

\* C21: rapide.Currency is a function from country code to currency code:
\* no country code occurs in two entries, so a lookup by country, for every
\* country the list names, and so for every listed country of a record that
\* is read, yields exactly one currency; the mapping is many-to-one, GB and UK both
\* map to GBP.
C21_CurrencyIsFunction ==
    /\ \A i, j \in DOMAIN Currency :
           Currency[i].Country = Currency[j].Country => i = j
    /\ \A c \in CurrencyCountries : Cardinality(CurrencyCodes(c)) = 1
    /\ \A c \in RecordCountries \cap CurrencyCountries : Cardinality(CurrencyCodes(c)) = 1
    /\ CurrencyCodes("GB") = {"GBP"}
    /\ CurrencyCodes("UK") = {"GBP"}

\* a file with a record to Great Britain has been read, and its lookup gives GBP
C21_Witness ==
    /\ pc = "select"
    /\ "GB" \in RecordCountries
    /\ "MX" \in RecordCountries
    /\ CurrencyCodes("GB") = {"GBP"}
    /\ CurrencyCodes("GB") = CurrencyCodes("UK")

----------------------------------------------------------------------------
(* Frames the stages receive *)

\* the read_csv cell has run
ReadDone == pc # "read_csv"

\* C22 (as stated): no stage mutates the record set it receives: the frame a
\* name is bound to changes only when the name is bound to a new frame; the raw
\* frame read from the labeled file is as it was read after every stage; the
\* frame passed to split is unchanged by the split.
C22_Original ==
    /\ [](ReadDone => labeled_raw_df = read_csv(labeled_csv))
    /\ [][(pc \in {"split", "automl_split"}) =>
            /\ selected_df' = selected_df
            /\ labeled_raw_df' = labeled_raw_df
       ]_vars
    /\ [][id_selected_df' = id_selected_df => selected_df' = selected_df]_vars

\* C22 (amended): no stage mutates the raw frame or the frame passed to
\* split: after select, rename, type assignment, target encoding, split and
\* write the raw frame read from the labeled file has the rows, fields and
\* values it had when read, and the split leaves the frame passed to it
\* unchanged; select and rename bind selected_df to a new frame, while the
\* typing loops and the target encoding assign columns of the frame they
\* receive (selected_df) in place.
C22_RawFrameNotMutated ==
    /\ [](ReadDone => labeled_raw_df = read_csv(labeled_csv))
    /\ [][ReadDone => labeled_raw_df' = labeled_raw_df]_vars
    /\ [][(pc \in {"split", "automl_split"}) =>
            /\ selected_df' = selected_df
            /\ id_selected_df' = id_selected_df
            /\ labeled_raw_df' = labeled_raw_df
       ]_vars
    /\ [][(pc \in {"select", "rename"} /\ pc' # "aborted") =>
            id_selected_df' = id_selected_df + 1]_vars
    /\ [][(pc \in {"assign_types", "encode_target"}) =>
            id_selected_df' = id_selected_df]_vars

\* every stage has run on a file with a column the selection leaves out: the
\* raw frame is as read, with its eight columns and its texts, while the frame
\* bound to selected_df since the rename holds typed and encoded columns
C22_Witness ==
    /\ pc = "upload"
    /\ Last(executed) = "to_csv"
    /\ labeled_raw_df = read_csv(labeled_csv)
    /\ Len(labeled_raw_df.columns) = 8
    /\ NRows(labeled_raw_df) = 3
    /\ ColumnValues(labeled_raw_df, "y_target")[1] = StrV("Success")
    /\ id_selected_df = 2
    /\ Len(selected_df.columns) = 7
    /\ ColumnValues(selected_df, "y_target")[1] \in {IntV(0), IntV(1)}
    /\ selected_df # rename(getitem(labeled_raw_df, fts), rename_columns)
    /\ NRows(X_train_df) + NRows(X_test_df) = NRows(selected_df)

----------------------------------------------------------------------------
(* Column order *)

\* the order the claim names
ColumnOrder ==
    << "y_target", "Dbtr_PstlAdr_Ctry", "Cdtr_PstlAdr_Ctry", "RgltryRptg_DbtCdtRptgInd",
       "RgltryRptg_Authrty_Ctry", "RgltryRptg_Dtls_Cd", "InstrForNxtAgt" >>

\* the texts a raw text of the labeled file can be written as: itself, or as
\* the float it was read as; a missing value as nothing or as nan
WrittenForms(t) == IF t \in NaTexts THEN {"", "nan"} ELSE {t, t \o ".0"}

\* lines holds the records of df, each with its fields in ColumnOrder: the
\* code of the target first, then under each position what the labeled file
\* holds for that record under the field of that position
InColumnOrder(lines, df) ==
    /\ df.columns = ColumnOrder
    /\ Len(lines) = NRows(df)
    /\ \A k \in 1..NRows(df) :
           /\ Len(lines[k]) = Len(ColumnOrder)
           /\ lines[k][1] \in DOMAIN IntLiterals
           /\ \A c \in 2..Len(ColumnOrder) :
                  lines[k][c] \in WrittenForms(RawText(df.index[k] + 1, ColumnOrder[c]))

\* the values a field of a request can take, by the field it stands for
FieldValues(name, t) ==
    CASE name \in {"Dbtr_PstlAdr_Ctry", "Cdtr_PstlAdr_Ctry"} -> t \in CurrencyCountries
      [] name = "RgltryRptg_DbtCdtRptgInd" -> t \in {"", "CRED", "DEBT", "BOTH"}
      [] name = "RgltryRptg_Authrty_Ctry" -> t \in CurrencyCountries \cup {""}
      [] name = "RgltryRptg_Dtls_Cd" ->
             /\ t \notin CurrencyCountries \cup {"CRED", "DEBT", "BOTH"}
             /\ t = "" \/ SubSeq(t, 1, 1) \in DOMAIN IntLiterals
      [] name = "InstrForNxtAgt" -> t = "" \/ SubSeq(t, 1, 1) = "/"

\* C23: the three files of the save cell render their columns in one fixed
\* order, the order of fts after renaming (y_target, Dbtr_PstlAdr_Ctry,
\* Cdtr_PstlAdr_Ctry, RgltryRptg_DbtCdtRptgInd, RgltryRptg_Authrty_Ctry,
\* RgltryRptg_Dtls_Cd, InstrForNxtAgt), whatever the order of the columns of
\* the labeled file; every sample request lists the six fields other than the
\* target in that same relative order.
C23_ColumnOrder ==
    /\ WriteDone =>
           /\ ColumnOrder = [i \in DOMAIN fts |-> Renamed(fts[i])]
           /\ Head(files[train_data_w_headers_output_path]) = ColumnOrder
           /\ InColumnOrder(Tail(files[train_data_w_headers_output_path]), X_train_df)
           /\ InColumnOrder(files[train_data_output_path], X_train_df)
           /\ InColumnOrder(files[test_data_output_path], X_test_df)
    /\ \A nb \in PipelineNotebooks : \A i \in DOMAIN payloads[nb] :
           LET fields == csv_fields(payloads[nb][i])
           IN  /\ Len(fields) = Len(ColumnOrder) - 1
               /\ \A c \in DOMAIN fields : FieldValues(ColumnOrder[c + 1], fields[c])

\* the files are written from a labeled file whose columns are in another
\* order, with a record that holds a value in every field
C23_Witness ==
    /\ WriteDone
    /\ pc = "upload"
    /\ labeled_csv.header = CsvHeaders[1]
    /\ labeled_csv.header[1] # fts[1]
    /\ NRows(X_train_df) = 2
    /\ \E k \in 1..2 :
           /\ files[train_data_output_path][k][2] = "IN"
           /\ files[train_data_output_path][k][3] = "CA"
           /\ files[train_data_output_path][k][4] = "DEBT"
           /\ files[train_data_output_path][k][6] = "00.P0006"
    /\ csv_fields(payloads[notebook][4]) = << "IN", "CA", "DEBT", "IN", "00.P0006", "" >>

----------------------------------------------------------------------------
(* The monitoring loop of the Autopilot notebook *)

\* the statuses the claim names
Terminal == {"Failed", "Completed", "Stopped"}

\* the kernel is in the monitoring loop
InLoop == pc = "while"

\* C24: the monitoring loop exits if and only if the status it observed last
\* is Failed, Completed or Stopped: it is not left while that status is any
\* other one, it makes no further pass once the status is one of the three,
\* what it observes is the status the service holds at that time, and, the
\* job reaching one of the three statuses at some time and each describe call
\* returning, the loop is left, with one of the three observed.
C24_MonitorLoop ==
    /\ [][(InLoop /\ pc' # "while") =>
            /\ job_run_status \in Terminal
            /\ job_run_status' = job_run_status
            /\ pc' = "best_candidate"
       ]_vars
    /\ [][(InLoop /\ job_run_status \notin Terminal) => pc' = "while"]_vars
    /\ [][(InLoop /\ job_run_status \in Terminal) => job_run_status' = job_run_status]_vars
    /\ [][job_run_status' # job_run_status => job_run_status' = AutoMLJobStatus]_vars
    /\ InLoop ~> (pc = "best_candidate" /\ job_run_status \in Terminal)

\* the loop has observed a job that is stopping, and the job has stopped since
C24_Witness ==
    /\ InLoop
    /\ notebook = "automl"
    /\ job_run_status = "Stopping"
    /\ AutoMLJobStatus = "Stopped"
    /\ Last(executed) = "create_auto_ml_job"

----------------------------------------------------------------------------
(* The cells after the monitoring loop *)

\* a cell after the monitoring loop has run to its end
AfterLoopCellRun ==
    \E cell \in {"best_candidate", "candidates", "store_training_job_name",
                 "create_model", "store_model_name"} : IsIn(cell, executed)

\* the run has stored nothing: the store is as an earlier run left it
NothingStored == store \in {NoFiles, earlier_store}

\* C25 (as stated): the cells after the monitoring loop (the read of the best
\* candidate, the container update, the store of training_job_name,
\* create_model, the store of model_name) run only when the status the loop
\* ended on is Completed; when it is Failed or Stopped no model is created and
\* nothing is stored.
C25_Original ==
    notebook = "automl" =>
        /\ AfterLoopCellRun => job_run_status = "Completed"
        /\ job_run_status \in {"Failed", "Stopped"} => (models = {} /\ NothingStored)

----------------------------------------------------------------------------
(* The endpoint of a run *)

\* the endpoint name the deployment cell of this run gave to deploy
DeployedEndpoint == endpoint_name_prefix[notebook] \o timestamp_prefix

\* the last cell of a pipeline notebook has run
LastCellRun == notebook \in PipelineNotebooks /\ pc = "done"

\* C26 (as stated): the Delete Endpoint cell deletes the endpoint the deploy
\* cell of the same run created: once the last cell has run, no endpoint
\* deployed by that run is left in the account.
C26_Original ==
    LastCellRun =>
        /\ endpoint_name = DeployedEndpoint
        /\ DeployedEndpoint \notin endpoints

----------------------------------------------------------------------------
(* The magic store *)

\* the value the store holds under a name
Stored(name) == IF name \in DOMAIN store THEN store[name] ELSE "None"

\* the model name the deployment cell of this run gave to PipelineModel
DeployedModel == model_name_prefix[notebook] \o timestamp_prefix

\* C27: the values a run puts in the magic store are names of resources the
\* same run created.  In the pipeline notebooks the stored model_name and
\* endpoint_name are the names given to PipelineModel and to deploy, which
\* created a model and an endpoint of these names, and the store is written
\* only after deploy returned.  In the Autopilot notebook the stored
\* model_name is the ModelName given to create_model, which created a model of
\* that name, and it is stored only after create_model returned; the stored
\* training_job_name is the candidate of the job this run created.
C27_StoredNames ==
    /\ []((notebook \in PipelineNotebooks /\ IsIn("store", executed)) =>
            /\ IsIn("deploy", executed)
            /\ Stored("model_name") = DeployedModel
            /\ Stored("endpoint_name") = DeployedEndpoint
            /\ DeployedModel \in models)
    /\ []((notebook \in PipelineNotebooks /\ ~IsIn("store", executed)) => NothingStored)
    /\ [][(pc = "deploy" /\ pc' = "store") =>
            /\ model_name' \notin models
            /\ endpoint_name' \notin endpoints
            /\ models' = models \cup {model_name'}
            /\ endpoints' = endpoints \cup {endpoint_name'}
            /\ model_name' = DeployedModel'
            /\ endpoint_name' = DeployedEndpoint'
       ]_vars
    /\ []((notebook = "automl" /\ IsIn("store_model_name", executed)) =>
            /\ IsIn("create_model", executed)
            /\ Stored("model_name") = auto_ml_job_name
            /\ Stored("training_job_name") = candidate_name(auto_ml_job_name)
            /\ auto_ml_job_name \in models)
    /\ [][(pc = "create_model" /\ pc' = "store_model_name") =>
            /\ model_name' \notin models
            /\ models' = models \cup {model_name'}
       ]_vars
    /\ [][store' # store =>
            \/ notebook \in PipelineNotebooks /\ IsIn("deploy", executed)
            \/ /\ notebook = "automl"
               /\ IsIn("best_candidate", executed)
               /\ (Stored("model_name")' # Stored("model_name") => IsIn("create_model", executed))
       ]_vars

\* a pipeline run in an account with the store and the endpoint of an earlier
\* run has run its last cell: the store holds the names of the run, not those
\* the request cell left in endpoint_name
C27_Witness ==
    /\ LastCellRun
    /\ gmtime = "2022-03-01-12-00-00"
    /\ Stored("model_name") = model_name
    /\ Stored("endpoint_name") = DeployedEndpoint
    /\ Stored("endpoint_name") # endpoint_name
    /\ Stored("endpoint_name") # earlier_store["endpoint_name"]
    /\ Stored("endpoint_name") \in endpoints

----------------------------------------------------------------------------
(* The order of the platform jobs of a pipeline notebook *)

\* the training job has been submitted
TrainingSubmitted == training_job # "None"

\* the deployment cell has made its names: deploy has been called
DeployCalled == timestamp_prefix # "None"

\* C28: in both pipeline notebooks the model training job is submitted only
\* after the batch transform job has been waited to completion; its only data
\* channel, train, is the output location of that transform job; and the
\* pipeline is deployed only after the fit of the preprocessor and the fit of
\* the model have both returned.
C28_JobOrder ==
    /\ [](TrainingSubmitted =>
            /\ notebook \in PipelineNotebooks
            /\ transform_job = "Completed"
            /\ IsIn("transform", executed)
            /\ DOMAIN data_channels = {"train"}
            /\ data_channels["train"] = transformer_output_path
            /\ data_channels["train"] = preprocessed_train
            /\ data_channels["train"] \notin DOMAIN s3)
    /\ [][TrainingSubmitted' /\ ~TrainingSubmitted => pc = "prepared" /\ Last(executed) = "transform"]_vars
    /\ [](DeployCalled =>
            /\ IsIn("fit", executed)
            /\ IsIn("train", executed)
            /\ training_job = "Completed"
            /\ IndexOf("fit", executed) < IndexOf("transform", executed)
            /\ IndexOf("transform", executed) < IndexOf("train", executed))
    /\ [][DeployCalled' /\ ~DeployCalled => pc = "deploy" /\ Last(executed) = "train"]_vars

\* the xgboost pipeline is deployed, after the three jobs
C28_Witness ==
    /\ notebook = "xgboost"
    /\ pc = "store"
    /\ DeployCalled
    /\ DeployedEndpoint \in endpoints
    /\ transform_job = "Completed"
    /\ training_job = "Completed"
    /\ data_channels["train"] = transformer_output_path
    /\ fit_inputs = training_data_location

----------------------------------------------------------------------------
(* The label of a probability *)

\* the probability of a response, in units of the ninth decimal place
Billionths(text) == Decimal(text).coefficient * pow10(9 + Decimal(text).exponent)

\* a probability rounded half up to seven places, in units of the seventh
RoundedHalfUp7(text) == (Billionths(text) + 50) \div 100

ProbaReturned == pc = "returned"

\* C29: prediction_proba reports Predicted: Success exactly when the
\* probability of the response, rounded half up to seven decimal places, is
\* strictly greater than 0.5000000, and Predicted: Failure otherwise: exactly
\* 0.5, and a probability above 0.5 that rounds to 0.5000000, are Failure;
\* the probability text of the result is the text of the response, unrounded.
C29_PredictionProba ==
    ProbaReturned =>
        /\ y_pred = (IF RoundedHalfUp7(prediction) > 5000000
                     THEN "Predicted: Success, Probability: "
                     ELSE "Predicted: Failure, Probability: ") \o prediction
        /\ prediction = "0.5" => y_pred = "Predicted: Failure, Probability: 0.5"
        /\ prediction = "0.50000004" =>
               y_pred = "Predicted: Failure, Probability: 0.50000004"
        /\ prediction = "0.50000005" =>
               y_pred = "Predicted: Success, Probability: 0.50000005"
        /\ prediction = "0.5000005" => y_pred = "Predicted: Success, Probability: 0.5000005"
        /\ prediction = "0.45" => y_pred = "Predicted: Failure, Probability: 0.45"
        /\ prediction = "1.0" => y_pred = "Predicted: Success, Probability: 1.0"

\* a probability half a unit of the seventh place above one half is Success
C29_Witness ==
    /\ ProbaReturned
    /\ prediction = "0.50000005"
    /\ RoundedHalfUp7(prediction) = 5000001
    /\ y_pred = "Predicted: Success, Probability: 0.50000005"

----------------------------------------------------------------------------
(* The counts of the BIC summary *)

\* the labels of the summary and the country code each stands for
CountryLabels ==
    << [label |-> "US BICs", code |-> "US"],
       [label |-> "Canada BICs", code |-> "CA"],
       [label |-> "Great Britain BICs", code |-> "GB"],
       [label |-> "India BICs", code |-> "IN"],
       [label |-> "Thailand BICs", code |-> "TH"],
       [label |-> "Mexico BICs", code |-> "MX"],
       [label |-> "Ireland BICs", code |-> "IE"] >>

\* the summary cell has been run
SummaryRun == pc \in {"done", "aborted"}

\* the number of generated BIC codes that contain a country code
CodesContaining(code) ==
    Cardinality({k \in DOMAIN user_ns["df"] : contains(user_ns["df"][k], code)})

\* C30 (as stated): the summary cell, run top to bottom in a fresh kernel
\* after the BIC frame is built, reads no name before it is assigned, and the
\* count it prints under each country label (US, Canada, Great Britain,
\* India, Thailand, Mexico, Ireland) is the number of generated BIC codes
\* that contain the code of that country.
C30_Original ==
    SummaryRun =>
        /\ error # "NameError"
        /\ \A i \in DOMAIN CountryLabels :
               \E k \in DOMAIN stdout :
                   /\ stdout[k].label = CountryLabels[i].label
                   /\ stdout[k].value = CodesContaining(CountryLabels[i].code)

====
